---- MODULE Spec2Model ----
(***************************************************************************)
(* Model of the shared-memory kernel-admission scheduler:                  *)
(*   - the SPSC ring (SPSCQueue, src/server/scheduler.cpp 1045-1181),      *)
(*   - the per-client service task (serviceClientChannel, 568-680),        *)
(*   - the client registry and the server's scan / adopt / reap loop.      *)
(* Bytes are one-character strings; NUL stands for the byte '\0'.          *)
(***************************************************************************)
EXTENDS Integers, Sequences, FiniteSets, TLC

(***************************************************************************)
(* Sizes.  The program's ring has 1024 slots of 256 bytes; the model keeps *)
(* the code's arithmetic and scales the two sizes down.                    *)
(***************************************************************************)
\* slots per ring (SPSC_QUEUE_SIZE, 1024 in the program)
SPSC_QUEUE_SIZE == 3
\* bytes per slot (SPSC_MSG_SIZE, 256 in the program)
SPSC_MSG_SIZE == 8
\* successful pushes the producer of the ring specification makes in one run
MaxPush == 4

NUL == "NUL"

Min(S) == CHOOSE x \in S : \A y \in S : x <= y

(***************************************************************************)
(* SPSCQueue: head, tail and the slot array char buffer[Q][S], kept as the *)
(* flat byte array it is in memory: buffer[i][j] lives at i * S + j.       *)
(***************************************************************************)
BufferBytes == SPSC_QUEUE_SIZE * SPSC_MSG_SIZE

\* SPSCQueue::init
SPSCQueue_init ==
    [head |-> 0, tail |-> 0, buffer |-> [a \in 0..(BufferBytes - 1) |-> NUL]]

\* address of buffer[slot][0]
SlotBase(slot) == slot * SPSC_MSG_SIZE

\* std::memcpy(buf + base, data, n)
Memcpy(buf, base, data, n) ==
    [a \in DOMAIN buf |->
        IF a >= base /\ a < base + n THEN data[a - base + 1] ELSE buf[a]]

\* buf[addr] = b
StoreByte(buf, addr, b) ==
    [a \in DOMAIN buf |-> IF a = addr THEN b ELSE buf[a]]

\* std::strlen(buf + base): the distance to the first NUL at or after base
Strlen(buf, base) ==
    Min({k \in 0..(BufferBytes - base) :
            base + k = BufferBytes \/ buf[base + k] = NUL})

\* (i + 1) % SPSC_QUEUE_SIZE
NextIndex(i) == (i + 1) % SPSC_QUEUE_SIZE

\* mutant of PushCopyLen: the clamp keeps no byte for the terminator
PushCopyLen_NoRoomForNul(len) == IF len < SPSC_MSG_SIZE THEN len ELSE SPSC_MSG_SIZE

\* try_push: copy_len = (len < SPSC_MSG_SIZE - 1) ? len : (SPSC_MSG_SIZE - 1)
PushCopyLen(len) == IF len < SPSC_MSG_SIZE - 1 THEN len ELSE SPSC_MSG_SIZE - 1

\* mutant of PushSeesFull: the full test looks one slot too far ahead
PushSeesFull_Early(current_tail, head) == NextIndex(NextIndex(current_tail)) = head

\* try_push: the full test, next_tail == head
PushSeesFull(current_tail, head) == NextIndex(current_tail) = head

\* try_push: memcpy(buffer[current_tail], data, copy_len);
\*           buffer[current_tail][copy_len] = '\0'
PushWriteSlot(buf, current_tail, data) ==
    LET copy_len == PushCopyLen(Len(data))
        base == SlotBase(current_tail)
    IN  StoreByte(Memcpy(buf, base, data, copy_len), base + copy_len, NUL)

\* mutant of PopSeesEmpty: the consumer applies the producer's full test
PopSeesEmpty_AsFull(current_head, tail) == NextIndex(current_head) = tail

\* try_pop: the empty test, current_head == tail
PopSeesEmpty(current_head, tail) == current_head = tail

\* try_pop: copy_len = strlen(buffer[current_head]);
\*          if (copy_len >= max_len) copy_len = max_len - 1;
PopCopyLen(buf, current_head, max_len) ==
    LET n == Strlen(buf, SlotBase(current_head))
    IN  IF n >= max_len THEN max_len - 1 ELSE n

\* try_pop: memcpy(out_data, buffer[current_head], copy_len);
\*          out_data[copy_len] = '\0'  -- out_data as the string before its NUL
PopReadSlot(buf, current_head, max_len) ==
    LET copy_len == PopCopyLen(buf, current_head, max_len)
        base == SlotBase(current_head)
    IN  [k \in 1..copy_len |-> buf[base + k - 1]]

\* SPSCQueue::empty
SPSCQueue_empty(q) == q.head = q.tail

\* mutant of SPSCQueue_size: the distance between the indices without the wrap
SPSCQueue_size_NoWrap(q) ==
    IF q.tail >= q.head THEN q.tail - q.head ELSE q.head - q.tail

\* SPSCQueue::size: (t - h + SPSC_QUEUE_SIZE) % SPSC_QUEUE_SIZE.  In uint64_t
\* arithmetic t - h + Q is the integer t - h + Q, because 0 < t - h + Q < 2Q.
SPSCQueue_size(q) == (q.tail - q.head + SPSC_QUEUE_SIZE) % SPSC_QUEUE_SIZE

\* the full condition of the data model: (tail + 1) mod Q == head
SPSCQueue_full(q) == NextIndex(q.tail) = q.head

\* try_push(data, len) as one call: [ret, q]
try_push(q, data) ==
    IF PushSeesFull(q.tail, q.head)
    THEN [ret |-> FALSE, q |-> q]
    ELSE [ret |-> TRUE,
          q |-> [q EXCEPT !.buffer = PushWriteSlot(q.buffer, q.tail, data),
                          !.tail = NextIndex(q.tail)]]

\* mutant of try_pop: the consumer clears the slot it has read
try_pop_ClearSlot(q, max_len) ==
    IF PopSeesEmpty(q.head, q.tail)
    THEN [ret |-> FALSE, out_data |-> <<>>, q |-> q]
    ELSE [ret |-> TRUE,
          out_data |-> PopReadSlot(q.buffer, q.head, max_len),
          q |-> [q EXCEPT !.buffer = StoreByte(q.buffer, SlotBase(q.head), NUL),
                          !.head = NextIndex(q.head)]]

\* try_pop(out_data, max_len) as one call: [ret, out_data, q]
try_pop(q, max_len) ==
    IF PopSeesEmpty(q.head, q.tail)
    THEN [ret |-> FALSE, out_data |-> <<>>, q |-> q]
    ELSE [ret |-> TRUE,
          out_data |-> PopReadSlot(q.buffer, q.head, max_len),
          q |-> [q EXCEPT !.head = NextIndex(q.head)]]


(***************************************************************************)
(* The text protocol of the service task: records are byte strings,        *)
(* fields are separated by '|', a record ends with '\n'.                   *)
(***************************************************************************)
LF == "LF"
CR == "CR"
PIPE == "|"

\* while (msg_len > 0 && (buffer[msg_len-1] == '\n' || ... == '\r')) msg_len--
\* the loop stops at the last byte that is neither '\n' nor '\r'
StripLineEnd(buffer) ==
    LET kept == {k \in 1..Len(buffer) : buffer[k] \notin {LF, CR}}
    IN  SubSeq(buffer, 1, IF kept = {} THEN 0
                          ELSE CHOOSE k \in kept : \A j \in kept : j <= k)

\* split(s, delimiter): one token per std::getline that succeeds, the j-th
\* token being the text between the (j-1)-th and the j-th delimiter.  getline
\* fails on an exhausted stream, so an empty string gives no token and a
\* delimiter that ends the string is not followed by an empty token.
split(s, delimiter) ==
    LET ends == {k \in 1..Len(s) : s[k] = delimiter}
        EndOf(j) == IF j = 0 THEN 0
                    ELSE IF j > Cardinality(ends) THEN Len(s) + 1
                    ELSE CHOOSE k \in ends : Cardinality({x \in ends : x < k}) = j - 1
        tokens == IF s = <<>> \/ s[Len(s)] = delimiter
                  THEN Cardinality(ends) ELSE Cardinality(ends) + 1
    IN  [j \in 1..tokens |-> SubSeq(s, EndOf(j - 1) + 1, EndOf(j) - 1)]

\* return {true, "OK"}
makeDecision(kernelType) == [allowed |-> TRUE, reason |-> <<"O", "K">>]

\* mutant of createResponseMessage: the reason comes first, the id last
createResponseMessage_IdLast(id, allowed, reason) ==
    reason \o <<PIPE, IF allowed THEN "1" ELSE "0", PIPE>> \o id \o <<LF>>

\* id + "|" + (allowed ? "1" : "0") + "|" + reason + "\n"
createResponseMessage(id, allowed, reason) ==
    id \o <<PIPE, IF allowed THEN "1" ELSE "0", PIPE>> \o reason \o <<LF>>

(***************************************************************************)
(* ClientChannel and ClientRegistry, the two kinds of shared segment.      *)
(***************************************************************************)
\* registry slots (MAX_REGISTERED_CLIENTS, 64 in the program)
MAX_REGISTERED_CLIENTS == 2

Slots == 0..(MAX_REGISTERED_CLIENTS - 1)

ClientChannel_init ==
    [request_queue |-> SPSCQueue_init,
     response_queue |-> SPSCQueue_init,
     client_connected |-> FALSE,
     scheduler_ready |-> FALSE]

\* last_heartbeat is a timestamp nothing in the server reads; it is left out
ClientRegistryEntry_init ==
    [active |-> FALSE, shm_name |-> "", client_type |-> "", unique_id |-> "",
     client_pid |-> 0]

ClientRegistry_init ==
    [scheduler_ready |-> FALSE,
     version |-> 0,
     entries |-> [i \in Slots |-> ClientRegistryEntry_init]]

\* the worker processes, their pids and the channel names they choose
Workers == {"A", "B"}

Pid(w) == IF w = "A" THEN 1 ELSE 2

ChannelName(w) == IF w = "A" THEN "/ks_A" ELSE "/ks_B"

ChannelNames == {ChannelName(w) : w \in Workers}

\* ShmClientConnection after its constructor
ShmClientConnection_init ==
    [pc |-> "idle", registrySlot_ |-> -1, channel_ |-> 0, connected_ |-> FALSE,
     alive |-> TRUE, i |-> 0, connects |-> 0]

\* registryScannerThread before its first iteration
Scanner_init ==
    [pc |-> "top", lastVersion |-> 0, currentVersion |-> 0, i |-> 0,
     toRemove |-> <<>>]

\* logMutex, statsMutex, clientsMutex
Mutexes == {"log", "stats", "clients"}

\* the service threads of the lock specification, one per registry slot
SvcThreads == {"svc0", "svc1"}

\* main(), registryScannerThread and the service threads
Threads == {"main", "scan"} \cup SvcThreads

\* no mutex is held; main() is at its first lock, the scan thread and the
\* service threads have not been started
Unlocked ==
    [owner |-> [m \in Mutexes |-> "none"],
     at |-> [t \in Threads |->
               IF t = "main" THEN "init" ELSE IF t = "scan" THEN "unborn" ELSE "none"],
     ret |-> [t \in Threads |-> "none"],
     running |-> [t \in SvcThreads |-> FALSE],
     toRemove |-> {}]

(***************************************************************************)
(* State.  The ring specifications use the first six variables, the        *)
(* service and registry specifications the next twelve, the lock           *)
(* specification the last one.                                             *)
(***************************************************************************)
VARIABLES
    ring,       \* the SPSCQueue
    prod,       \* producer: pc, data, current_tail, ret of the last call
    cons,       \* consumer: pc, current_head, out_data, ret of the last call
    pushed,     \* history: payloads of the pushes that returned true
    popped,     \* history: out_data of the pops that returned true
    streak,     \* successful pushes since the ring was empty, -1 after a pop
    seg,        \* the channel segments ever created, seg[id] a ClientChannel
    shm,        \* the shm namespace: channel name -> segment id, 0 = no such name
    g_registry, \* the ClientRegistry segment
    g_activeClients, \* the server's ActiveClient records with their service threads
    g_running,  \* the server's shutdown flag
    main,       \* main(): the position of the server's main thread
    scanner,    \* registryScannerThread: pc and locals
    wk,         \* the workers: pc and members of their ShmClientConnection
    sent,       \* history: per worker, the requests it pushed
    received,   \* history: per worker, the responses it popped
    log,        \* history: per registry slot, what the service thread did with each record
    holder,     \* history: per registry slot, the registration <<worker, n-th connect>> holding it
    locks       \* the server's three mutexes and the position of each server thread in its locking

ringVars == <<ring, prod, cons, pushed, popped, streak, locks>>

sysVars == <<seg, shm, g_registry, g_activeClients, g_running, main, scanner, wk,
             sent, received, log, holder, locks>>

vars == <<ring, prod, cons, pushed, popped, streak, seg, shm, g_registry,
          g_activeClients, g_running, main, scanner, wk, sent, received, log,
          holder, locks>>

\* the ring specifications leave the server and the workers as constructed
SysIdle ==
    /\ seg = <<>>
    /\ shm = [n \in ChannelNames |-> 0]
    /\ g_registry = ClientRegistry_init
    /\ g_activeClients = {}
    /\ g_running = TRUE
    /\ main = "serving"
    /\ scanner = Scanner_init
    /\ wk = [w \in Workers |-> ShmClientConnection_init]
    /\ sent = [w \in Workers |-> <<>>]
    /\ received = [w \in Workers |-> <<>>]
    /\ log = [s \in Slots |-> <<>>]
    /\ holder = [s \in Slots |-> <<>>]
    /\ locks = Unlocked

\* the service and registry specifications leave the stand-alone ring alone
RingIdle ==
    /\ ring = SPSCQueue_init
    /\ prod = [pc |-> "idle", data |-> <<>>, current_tail |-> 0, ret |-> "None"]
    /\ cons = [pc |-> "idle", current_head |-> 0, out_data |-> <<>>, ret |-> "None"]
    /\ pushed = <<>>
    /\ popped = <<>>
    /\ streak = 0
    /\ locks = Unlocked

\* payloads of the ring specification
RingPayloads == {<<"a">>, <<"b", "a">>}

ProdIdle == [pc |-> "idle", data |-> <<>>, current_tail |-> 0, ret |-> "None"]
ConsIdle == [pc |-> "idle", current_head |-> 0, out_data |-> <<>>, ret |-> "None"]

InitRing ==
    /\ ring = SPSCQueue_init
    /\ prod = ProdIdle
    /\ cons = ConsIdle
    /\ pushed = <<>>
    /\ popped = <<>>
    /\ streak = 0
    /\ SysIdle

(***************************************************************************)
(* try_push(data, len), one atomic access per step.                        *)
(***************************************************************************)
\* uint64_t current_tail = tail.load(relaxed)
PushBegin(data) ==
    /\ prod.pc = "idle"
    /\ Len(pushed) < MaxPush
    /\ prod' = [pc |-> "check", data |-> data,
                current_tail |-> ring.tail, ret |-> "None"]
    /\ UNCHANGED <<ring, cons, pushed, popped, streak, sysVars>>

\* mutant of PushCheck: the slot is written before the full test
PushCheck_WriteFirst ==
    /\ prod.pc = "check"
    /\ ring' = [ring EXCEPT
                  !.buffer = PushWriteSlot(ring.buffer, prod.current_tail, prod.data)]
    /\ IF PushSeesFull(prod.current_tail, ring.head)
       THEN prod' = [prod EXCEPT !.pc = "idle", !.ret = "Full"]
       ELSE prod' = [prod EXCEPT !.pc = "publish"]
    /\ UNCHANGED <<cons, pushed, popped, streak, sysVars>>

\* if (next_tail == head.load(acquire)) return false;
PushCheck ==
    /\ prod.pc = "check"
    /\ IF PushSeesFull(prod.current_tail, ring.head)
       THEN prod' = [prod EXCEPT !.pc = "idle", !.ret = "Full"]
       ELSE prod' = [prod EXCEPT !.pc = "write"]
    /\ UNCHANGED <<ring, cons, pushed, popped, streak, sysVars>>

\* memcpy + NUL into buffer[current_tail]
PushWrite ==
    /\ prod.pc = "write"
    /\ ring' = [ring EXCEPT
                  !.buffer = PushWriteSlot(ring.buffer, prod.current_tail, prod.data)]
    /\ prod' = [prod EXCEPT !.pc = "publish"]
    /\ UNCHANGED <<cons, pushed, popped, streak, sysVars>>

\* tail.store(next_tail, release); return true
PushPublish ==
    /\ prod.pc = "publish"
    /\ ring' = [ring EXCEPT !.tail = NextIndex(prod.current_tail)]
    /\ prod' = [prod EXCEPT !.pc = "idle", !.ret = "Ok"]
    /\ pushed' = Append(pushed, prod.data)
    /\ streak' = IF streak >= 0 THEN streak + 1 ELSE streak
    /\ UNCHANGED <<cons, popped, sysVars>>

(***************************************************************************)
(* try_pop(out_data, max_len) with max_len = SPSC_MSG_SIZE.                *)
(***************************************************************************)
\* uint64_t current_head = head.load(relaxed)
PopBegin ==
    /\ cons.pc = "idle"
    /\ cons' = [pc |-> "check", current_head |-> ring.head,
                out_data |-> cons.out_data, ret |-> "None"]
    /\ UNCHANGED <<ring, prod, pushed, popped, streak, sysVars>>

\* if (current_head == tail.load(acquire)) return false;
PopCheck ==
    /\ cons.pc = "check"
    /\ IF PopSeesEmpty(cons.current_head, ring.tail)
       THEN cons' = [cons EXCEPT !.pc = "idle", !.ret = "Empty"]
       ELSE cons' = [cons EXCEPT !.pc = "read"]
    /\ UNCHANGED <<ring, prod, pushed, popped, streak, sysVars>>

\* strlen + memcpy out of buffer[current_head]
PopRead ==
    /\ cons.pc = "read"
    /\ cons' = [cons EXCEPT
                  !.pc = "publish",
                  !.out_data = PopReadSlot(ring.buffer, cons.current_head,
                                           SPSC_MSG_SIZE)]
    /\ UNCHANGED <<ring, prod, pushed, popped, streak, sysVars>>

\* head.store((current_head + 1) % SPSC_QUEUE_SIZE, release); return true
PopPublish ==
    /\ cons.pc = "publish"
    /\ ring' = [ring EXCEPT !.head = NextIndex(cons.current_head)]
    /\ cons' = [cons EXCEPT !.pc = "idle", !.ret = "Ok"]
    /\ popped' = Append(popped, cons.out_data)
    /\ streak' = IF NextIndex(cons.current_head) = ring.tail /\ prod.pc = "idle"
                 THEN 0 ELSE -1
    /\ UNCHANGED <<prod, pushed, sysVars>>

Producer == (\E data \in RingPayloads : PushBegin(data))
               \/ PushCheck \/ PushWrite \/ PushPublish

Consumer == PopBegin \/ PopCheck \/ PopRead \/ PopPublish

NextRing == Producer \/ Consumer

SpecRing == InitRing /\ [][NextRing]_vars

\* the consumer keeps popping
FairSpecRing == SpecRing /\ WF_vars(Consumer)

(***************************************************************************)
(* The ring driven call by call with payloads of every length around the   *)
(* slot size and a payload holding a NUL byte.                             *)
(***************************************************************************)
\* n bytes, none of them NUL
Fill(n) == [i \in 1..n |-> IF i % 2 = 1 THEN "a" ELSE "b"]

BytePayloads ==
    {<<>>, <<"b">>, <<"a", NUL, "b">>,
     Fill(SPSC_MSG_SIZE - 1), Fill(SPSC_MSG_SIZE), Fill(SPSC_MSG_SIZE + 1)}

\* one whole try_push(data, len) call
TryPushCall(data) ==
    LET r == try_push(ring, data) IN
    /\ Len(pushed) < MaxPush
    /\ ring' = r.q
    /\ prod' = [pc |-> "idle", data |-> data, current_tail |-> ring.tail,
                ret |-> IF r.ret THEN "Ok" ELSE "Full"]
    /\ pushed' = IF r.ret THEN Append(pushed, data) ELSE pushed
    /\ UNCHANGED <<cons, popped, streak, sysVars>>

\* one whole try_pop(out_data, SPSC_MSG_SIZE) call
TryPopCall ==
    LET r == try_pop(ring, SPSC_MSG_SIZE) IN
    /\ ring' = r.q
    /\ cons' = [pc |-> "idle", current_head |-> ring.head,
                out_data |-> IF r.ret THEN r.out_data ELSE cons.out_data,
                ret |-> IF r.ret THEN "Ok" ELSE "Empty"]
    /\ popped' = IF r.ret THEN Append(popped, r.out_data) ELSE popped
    /\ UNCHANGED <<prod, pushed, streak, sysVars>>

NextBytes == (\E data \in BytePayloads : TryPushCall(data)) \/ TryPopCall

SpecBytes == InitRing /\ [][NextBytes]_vars

(***************************************************************************)
(* The service thread of one ActiveClient: serviceClientChannel(client).   *)
(* The rings of a channel are used call by call (try_push / try_pop).      *)
(***************************************************************************)
\* a new ActiveClient as discoverAndServiceNewClient fills it in
\* (ticket: history, the registration the record was made for)
ActiveClient(slot, shmName, clientType, uniqueId, clientPid, channel, ticket) ==
    [registrySlot |-> slot, shmName |-> shmName, clientType |-> clientType,
     uniqueId |-> uniqueId, clientPid |-> clientPid, channel |-> channel,
     running |-> TRUE, pc |-> "start", buffer |-> <<>>, response |-> <<>>,
     ticket |-> ticket]

\* g_activeClients with record c replaced by record d
ReplaceClient(c, d) == (g_activeClients \ {c}) \cup {d}

\* the history of a slot with one more record popped
Logged(s, req, response, outcome) ==
    [log EXCEPT ![s] = Append(@, [req |-> req, response |-> response,
                                  outcome |-> outcome])]

\* the history of a slot with the outcome of its last record settled
Settled(s, outcome) == [log EXCEPT ![s][Len(log[s])].outcome = outcome]

\* mutant of SvcStart: the thread enters its loop without the store
SvcStart_NoReady(c) ==
    /\ c.pc = "start"
    /\ g_activeClients' = ReplaceClient(c, [c EXCEPT !.pc = "loop"])
    /\ UNCHANGED <<seg, shm, g_registry, g_running, main, scanner, wk, sent,
                   received, log, holder, ringVars>>

\* client->channel->scheduler_ready.store(true)
SvcStart(c) ==
    /\ c.pc = "start"
    /\ seg' = [seg EXCEPT ![c.channel].scheduler_ready = TRUE]
    /\ g_activeClients' = ReplaceClient(c, [c EXCEPT !.pc = "loop"])
    /\ UNCHANGED <<shm, g_registry, g_running, main, scanner, wk, sent, received,
                   log, holder, ringVars>>

\* while (g_running.load() && client->running.load())
SvcLoop(c) ==
    /\ c.pc = "loop"
    /\ g_activeClients' =
          ReplaceClient(c, [c EXCEPT !.pc = IF g_running /\ c.running
                                            THEN "pop" ELSE "exited"])
    /\ UNCHANGED <<seg, shm, g_registry, g_running, main, scanner, wk, sent,
                   received, log, holder, ringVars>>

\* mutant of AfterMalformed: the thread leaves its loop
AfterMalformed_Exit(c) == [c EXCEPT !.pc = "exited"]

\* if (parts.size() < 3) { writeLog(...); continue; }
AfterMalformed(c) == [c EXCEPT !.pc = "loop"]

\* what the thread does with the tokens of the record in its buffer: decide,
\* build the response it is about to push
Serve(c, parts) ==
    IF Len(parts) < 3 THEN AfterMalformed([c EXCEPT !.buffer = <<>>])
    ELSE LET kernelType == parts[1]
             reqId == parts[2]
             decision == makeDecision(kernelType)
         IN  [c EXCEPT !.pc = "push",
                       !.buffer = <<>>,
                       !.response = createResponseMessage(
                            reqId, decision.allowed, decision.reason)]

\* one turn of  while (!request_queue.try_pop(buffer, SPSC_MSG_SIZE)) {...}
\* tick: this failed pop is the 10000th in a row
SvcPop(c) ==
    /\ c.pc = "pop"
    /\ LET r == try_pop(seg[c.channel].request_queue, SPSC_MSG_SIZE) IN
       IF r.ret
       THEN /\ seg' = [seg EXCEPT ![c.channel].request_queue = r.q]
            /\ g_activeClients' =
                  ReplaceClient(c, [c EXCEPT !.pc = "serve",
                                             !.buffer = r.out_data])
       ELSE /\ \E tick \in BOOLEAN :
                 g_activeClients' = ReplaceClient(c,
                     [c EXCEPT !.pc =
                         IF ~g_running \/ ~c.running THEN "exited"
                         ELSE IF tick /\ ~seg[c.channel].client_connected
                              THEN "exited" ELSE "pop"])
            /\ UNCHANGED seg
    /\ UNCHANGED <<shm, g_registry, g_running, main, scanner, wk, sent, received,
                   log, holder, ringVars>>

\* the record is handled: the line end is stripped, the message split; a
\* malformed one is logged and dropped, for a request the response is ready
\* to be pushed
SvcServe(c) ==
    /\ c.pc = "serve"
    /\ \E message \in {StripLineEnd(c.buffer)} :
       \E parts \in {split(message, PIPE)} :
       \E d \in {Serve(c, parts)} :
          /\ g_activeClients' = ReplaceClient(c, d)
          /\ log' = Logged(c.registrySlot, c.buffer, d.response,
                           IF d.pc = "push" THEN "pending" ELSE "malformed")
    /\ UNCHANGED <<seg, shm, g_registry, g_running, main, scanner, wk, sent,
                   received, holder, ringVars>>

\* the channel of some other client when there is one
OtherChannel(c) ==
    IF \E o \in g_activeClients : o.channel # c.channel
    THEN (CHOOSE o \in g_activeClients : o.channel # c.channel).channel
    ELSE c.channel

\* mutant of SvcPush: the response goes to another client's response ring
SvcPush_OtherChannel(c) ==
    /\ c.pc = "push"
    /\ LET r == try_push(seg[OtherChannel(c)].response_queue, c.response) IN
       IF r.ret
       THEN /\ seg' = [seg EXCEPT ![OtherChannel(c)].response_queue = r.q]
            /\ g_activeClients' =
                  ReplaceClient(c, [c EXCEPT !.pc = "loop", !.response = <<>>])
            /\ log' = Settled(c.registrySlot, "pushed")
       ELSE /\ UNCHANGED seg
            /\ \E expired \in BOOLEAN :
                 IF expired
                 THEN /\ g_activeClients' =
                            ReplaceClient(c, [c EXCEPT !.pc = "loop",
                                                       !.response = <<>>])
                      /\ log' = Settled(c.registrySlot, "timeout")
                 ELSE UNCHANGED <<g_activeClients, log>>
    /\ UNCHANGED <<shm, g_registry, g_running, main, scanner, wk, sent, received,
                   holder, ringVars>>

\* mutant of SvcPush: a push that times out ends the thread
SvcPush_ExitOnTimeout(c) ==
    /\ c.pc = "push"
    /\ LET r == try_push(seg[c.channel].response_queue, c.response) IN
       IF r.ret
       THEN /\ seg' = [seg EXCEPT ![c.channel].response_queue = r.q]
            /\ g_activeClients' =
                  ReplaceClient(c, [c EXCEPT !.pc = "loop", !.response = <<>>])
            /\ log' = Settled(c.registrySlot, "pushed")
       ELSE /\ UNCHANGED seg
            /\ g_activeClients' =
                  ReplaceClient(c, [c EXCEPT !.pc = "exited", !.response = <<>>])
            /\ log' = Settled(c.registrySlot, "timeout")
    /\ UNCHANGED <<shm, g_registry, g_running, main, scanner, wk, sent, received,
                   holder, ringVars>>

\* mutant of SvcPush: push_blocking without a timeout
SvcPush_NoTimeout(c) ==
    /\ c.pc = "push"
    /\ LET r == try_push(seg[c.channel].response_queue, c.response) IN
       /\ r.ret
       /\ seg' = [seg EXCEPT ![c.channel].response_queue = r.q]
       /\ g_activeClients' =
             ReplaceClient(c, [c EXCEPT !.pc = "loop", !.response = <<>>])
       /\ log' = Settled(c.registrySlot, "pushed")
    /\ UNCHANGED <<shm, g_registry, g_running, main, scanner, wk, sent, received,
                   holder, ringVars>>

\* one turn of response_queue.push_blocking(response, 5000): try_push, and when
\* it fails either the 5000 ms have passed (expired: log, back to the loop
\* test, the response is dropped) or the thread tries again
SvcPush(c) ==
    /\ c.pc = "push"
    /\ LET r == try_push(seg[c.channel].response_queue, c.response) IN
       IF r.ret
       THEN /\ seg' = [seg EXCEPT ![c.channel].response_queue = r.q]
            /\ g_activeClients' =
                  ReplaceClient(c, [c EXCEPT !.pc = "loop", !.response = <<>>])
            /\ log' = Settled(c.registrySlot, "pushed")
       ELSE /\ UNCHANGED seg
            /\ \E expired \in BOOLEAN :
                 IF expired
                 THEN /\ g_activeClients' =
                            ReplaceClient(c, [c EXCEPT !.pc = "loop",
                                                       !.response = <<>>])
                      /\ log' = Settled(c.registrySlot, "timeout")
                 ELSE UNCHANGED <<g_activeClients, log>>
    /\ UNCHANGED <<shm, g_registry, g_running, main, scanner, wk, sent, received,
                   holder, ringVars>>

\* the service thread of the client record of slot s
ServiceThread(s) ==
    \E c \in g_activeClients :
        /\ c.registrySlot = s
        /\ (SvcStart(c) \/ SvcLoop(c) \/ SvcPop(c) \/ SvcServe(c) \/ SvcPush(c))

(***************************************************************************)
(* The worker's side of an open channel (ShmClientConnection).             *)
(***************************************************************************)
\* requests all the workers together push in one run
MaxSent == 4

TotalSent == Len(sent["A"]) + Len(sent["B"])

\* step 6 of connect(): while (!channel_->isServerReady()) ...; connected_ = true
WkWaitReady(w) ==
    /\ wk[w].pc = "wait_ready" /\ wk[w].alive
    /\ seg[wk[w].channel_].scheduler_ready
    /\ wk' = [wk EXCEPT ![w].pc = "connected", ![w].connected_ = TRUE]
    /\ UNCHANGED <<seg, shm, g_registry, g_activeClients, g_running, main, scanner,
                   sent, received, log, holder, ringVars>>

\* sendRequest, first half: the request goes into the request ring
WorkerSend(w, request) ==
    /\ wk[w].pc = "connected" /\ wk[w].alive
    /\ TotalSent < MaxSent
    /\ LET r == try_push(seg[wk[w].channel_].request_queue, request) IN
       /\ r.ret
       /\ seg' = [seg EXCEPT ![wk[w].channel_].request_queue = r.q]
    /\ sent' = [sent EXCEPT ![w] = Append(@, request)]
    /\ UNCHANGED <<shm, g_registry, g_activeClients, g_running, main, scanner, wk,
                   received, log, holder, ringVars>>

\* sendRequest, second half: a response comes out of the response ring
WorkerRecv(w) ==
    /\ wk[w].pc = "connected" /\ wk[w].alive
    /\ LET r == try_pop(seg[wk[w].channel_].response_queue, SPSC_MSG_SIZE) IN
       /\ r.ret
       /\ seg' = [seg EXCEPT ![wk[w].channel_].response_queue = r.q]
       /\ received' = [received EXCEPT ![w] = Append(@, r.out_data)]
    /\ UNCHANGED <<shm, g_registry, g_activeClients, g_running, main, scanner, wk,
                   sent, log, holder, ringVars>>

(***************************************************************************)
(* Service specifications: the workers of ws have registered, the scanner  *)
(* has adopted them, their service threads are starting.                   *)
(***************************************************************************)
ServedSlot(w) == IF w = "A" THEN 0 ELSE 1

ServedSeg(w) == ServedSlot(w) + 1

InitService(ws) ==
    /\ seg = [k \in 1..Cardinality(ws) |->
                [ClientChannel_init EXCEPT !.client_connected = TRUE]]
    /\ shm = [n \in ChannelNames |->
                IF \E w \in ws : ChannelName(w) = n
                THEN ServedSeg(CHOOSE w \in ws : ChannelName(w) = n) ELSE 0]
    /\ g_registry =
          [scheduler_ready |-> TRUE,
           version |-> Cardinality(ws),
           entries |-> [i \in Slots |->
               IF \E w \in ws : ServedSlot(w) = i
               THEN LET w == CHOOSE x \in ws : ServedSlot(x) = i IN
                    [active |-> TRUE, shm_name |-> ChannelName(w),
                     client_type |-> "pytorch", unique_id |-> w,
                     client_pid |-> Pid(w)]
               ELSE ClientRegistryEntry_init]]
    /\ g_activeClients =
          {ActiveClient(ServedSlot(w), ChannelName(w), "pytorch", w, Pid(w),
                        ServedSeg(w), <<w, 1>>) : w \in ws}
    /\ g_running = TRUE
    /\ main = "serving"
    /\ scanner = [Scanner_init EXCEPT !.lastVersion = Cardinality(ws),
                                      !.currentVersion = Cardinality(ws)]
    /\ wk = [w \in Workers |->
               IF w \in ws
               THEN [ShmClientConnection_init EXCEPT
                        !.pc = "wait_ready", !.registrySlot_ = ServedSlot(w),
                        !.channel_ = ServedSeg(w), !.connects = 1]
               ELSE ShmClientConnection_init]
    /\ sent = [w \in Workers |-> <<>>]
    /\ received = [w \in Workers |-> <<>>]
    /\ log = [s \in Slots |-> <<>>]
    /\ holder = [s \in Slots |->
                   IF \E w \in ws : ServedSlot(w) = s
                   THEN <<CHOOSE w \in ws : ServedSlot(w) = s, 1>> ELSE <<>>]
    /\ RingIdle

\* one worker, requests of every shape
\*   k|a|s\n     three fields
\*   a\n         one field
\*   k|a|\n      empty source tag and no unique id
\*   |ab..|s     no line end, empty kernel type, an id so long that the
\*               response does not fit a slot
\*   k|b||u\r\n  four fields, empty source tag
RoundRequests ==
    {<<"k", PIPE, "a", PIPE, "s", LF>>,
     <<"a", LF>>,
     <<"k", PIPE, "a", PIPE, LF>>,
     <<PIPE>> \o Fill(SPSC_MSG_SIZE - 6) \o <<PIPE, "s">>,
     <<"k", PIPE, "b", PIPE, PIPE, "u", CR, LF>>}

InitRound == InitService({"A"})

NextRound ==
    \/ WkWaitReady("A")
    \/ \E request \in RoundRequests : WorkerSend("A", request)
    \/ WorkerRecv("A")
    \/ \E s \in Slots : ServiceThread(s)

SpecRound == InitRound /\ [][NextRound]_vars

\* every service thread keeps running
FairSpecRound == SpecRound /\ \A s \in Slots : WF_vars(ServiceThread(s))

\* two workers at once; their request ids differ
MultiRequests(w) ==
    IF w = "A" THEN {<<"k", PIPE, "a", PIPE, "s", LF>>, <<"a", LF>>}
    ELSE {<<"k", PIPE, "b", PIPE, "s", LF>>}

InitMulti == InitService(Workers)

NextMulti ==
    \/ \E w \in Workers : WkWaitReady(w)
    \/ \E w \in Workers : \E request \in MultiRequests(w) : WorkerSend(w, request)
    \/ \E w \in Workers : WorkerRecv(w)
    \/ \E s \in Slots : ServiceThread(s)

SpecMulti == InitMulti /\ [][NextMulti]_vars

FairSpecMulti == SpecMulti /\ \A s \in Slots : WF_vars(ServiceThread(s))


(***************************************************************************)
(* The registry and the life of a connection: the worker's connect() and   *)
(* disconnect() (ShmClientConnection), ClientRegistry::register_client and *)
(* unregister_client one shared access per step, and the server's          *)
(* registryScannerThread with discoverAndServiceNewClient and              *)
(* cleanupDisconnectedClients.                                             *)
(***************************************************************************)
\* connect() calls the workers make in one run, all workers together
MaxConnects == 2

TotalConnects == wk["A"].connects + wk["B"].connects

\* worker processes that die in one run
MaxCrashes == 1

Crashes == Cardinality({w \in Workers : ~wk[w].alive})

\* the registration a worker is making or holds: <<worker, n-th connect>>
Ticket(w) == <<w, wk[w].connects>>

\* shm_open(name, O_RDWR): the segment of that name, 0 when there is none
ShmOpen(name) == IF name \in DOMAIN shm THEN shm[name] ELSE 0

\* shm_unlink(name): the name is gone, the segment stays with those who map it
ShmUnlink(name) == [n \in DOMAIN shm |-> IF n = name THEN 0 ELSE shm[n]]

\* mutant of isProcessAlive: every pid counts as alive
isProcessAlive_Always(pid) == TRUE

\* kill(pid, 0) == 0; a pid that is not positive counts as alive
isProcessAlive(pid) ==
    pid <= 0 \/ \E w \in Workers : Pid(w) = pid /\ wk[w].alive

\* a store to entries[slot].active
StoreActive(slot, value) ==
    [g_registry EXCEPT !.entries[slot].active = value]

\* connect(), steps 1 and 2: the registry is there and the server is ready.
\* The workers differ in name only: "A" is the one that connects first.
WkConnect(w) ==
    /\ wk[w].pc = "idle" /\ wk[w].alive
    /\ w = "B" => wk["A"].connects > 0
    /\ ~wk[w].connected_
    /\ TotalConnects < MaxConnects
    /\ g_registry.scheduler_ready
    /\ wk' = [wk EXCEPT ![w].pc = "create", ![w].connects = @ + 1]
    /\ UNCHANGED <<seg, shm, g_registry, g_activeClients, g_running, main, scanner,
                   sent, received, log, holder, ringVars>>

\* connect(), step 3: createChannel(channelName_, true): shm_open(O_CREAT)
\* makes the segment or opens the one of that name, and init() runs on it
WkCreateChannel(w) ==
    /\ wk[w].pc = "create" /\ wk[w].alive
    /\ IF ShmOpen(ChannelName(w)) = 0
       THEN /\ seg' = Append(seg, ClientChannel_init)
            /\ shm' = [shm EXCEPT ![ChannelName(w)] = Len(seg) + 1]
            /\ wk' = [wk EXCEPT ![w].pc = "register", ![w].i = 0,
                                ![w].channel_ = Len(seg) + 1]
       ELSE /\ seg' = [seg EXCEPT ![ShmOpen(ChannelName(w))] = ClientChannel_init]
            /\ shm' = shm
            /\ wk' = [wk EXCEPT ![w].pc = "register", ![w].i = 0,
                                ![w].channel_ = ShmOpen(ChannelName(w))]
    /\ UNCHANGED <<g_registry, g_activeClients, g_running, main, scanner, sent,
                   received, log, holder, ringVars>>

\* mutant of WkRegisterCas: a plain store in place of the compare-and-set
WkRegisterCas_NoCompare(w) ==
    /\ wk[w].pc = "register" /\ wk[w].alive
    /\ g_registry' = StoreActive(wk[w].i, TRUE)
    /\ holder' = [holder EXCEPT ![wk[w].i] = Ticket(w)]
    /\ wk' = [wk EXCEPT ![w].pc = "reg_fields"]
    /\ UNCHANGED <<seg, shm, g_activeClients, g_running, main, scanner, sent,
                   received, log, ringVars>>

\* register_client, one turn of the loop:
\* entries[i].active.compare_exchange_strong(expected = false, true)
WkRegisterCas(w) ==
    /\ wk[w].pc = "register" /\ wk[w].alive
    /\ IF ~g_registry.entries[wk[w].i].active
       THEN /\ g_registry' = StoreActive(wk[w].i, TRUE)
            /\ holder' = [holder EXCEPT ![wk[w].i] = Ticket(w)]
            /\ wk' = [wk EXCEPT ![w].pc = "reg_fields"]
       ELSE /\ wk' = IF wk[w].i + 1 < MAX_REGISTERED_CLIENTS
                     THEN [wk EXCEPT ![w].i = @ + 1]
                     ELSE [wk EXCEPT ![w].pc = "reg_full", ![w].i = 0]
            /\ UNCHANGED <<g_registry, holder>>
    /\ UNCHANGED <<seg, shm, g_activeClients, g_running, main, scanner, sent,
                   received, log, ringVars>>

\* register_client: the three strncpy into the claimed entry and
\* client_pid.store(pid) (and the heartbeat), taken as one write of the
\* descriptor: what a reader sees before it is the state after WkRegisterCas,
\* the flag set over the fields of the slot's previous occupant
WkRegisterFields(w) ==
    /\ wk[w].pc = "reg_fields" /\ wk[w].alive
    /\ g_registry' = [g_registry EXCEPT
                        !.entries[wk[w].i].shm_name = ChannelName(w),
                        !.entries[wk[w].i].client_type = "pytorch",
                        !.entries[wk[w].i].unique_id = w,
                        !.entries[wk[w].i].client_pid = Pid(w)]
    /\ wk' = [wk EXCEPT ![w].pc = "reg_version"]
    /\ UNCHANGED <<seg, shm, g_activeClients, g_running, main, scanner, sent,
                   received, log, holder, ringVars>>

\* register_client: version.fetch_add(1); return i  (registrySlot_ = i)
WkRegisterVersion(w) ==
    /\ wk[w].pc = "reg_version" /\ wk[w].alive
    /\ g_registry' = [g_registry EXCEPT !.version = @ + 1]
    /\ wk' = [wk EXCEPT ![w].pc = "set_connected",
                        ![w].registrySlot_ = wk[w].i, ![w].i = 0]
    /\ UNCHANGED <<seg, shm, g_activeClients, g_running, main, scanner, sent,
                   received, log, holder, ringVars>>

\* connect(), step 5: channel_->setClientConnected(true)
WkSetConnected(w) ==
    /\ wk[w].pc = "set_connected" /\ wk[w].alive
    /\ seg' = [seg EXCEPT ![wk[w].channel_].client_connected = TRUE]
    /\ wk' = [wk EXCEPT ![w].pc = "wait_ready"]
    /\ UNCHANGED <<shm, g_registry, g_activeClients, g_running, main, scanner, sent,
                   received, log, holder, ringVars>>

\* connect(), step 6: the wait for the channel's server-ready flag times out
WkWaitTimeout(w) ==
    /\ wk[w].pc = "wait_ready" /\ wk[w].alive
    /\ ~seg[wk[w].channel_].scheduler_ready
    /\ wk' = [wk EXCEPT ![w].pc = "fail_unreg"]
    /\ UNCHANGED <<seg, shm, g_registry, g_activeClients, g_running, main, scanner,
                   sent, received, log, holder, ringVars>>

\* disconnect() is called on a connected worker
WkDisconnect(w) ==
    /\ wk[w].pc = "connected" /\ wk[w].alive
    /\ wk[w].connected_
    /\ wk' = [wk EXCEPT ![w].pc = "disc_unreg"]
    /\ UNCHANGED <<seg, shm, g_registry, g_activeClients, g_running, main, scanner,
                   sent, received, log, holder, ringVars>>

\* unregister_client(registrySlot_): entries[slot].active.store(false)
WkUnregisterStore(w) ==
    /\ wk[w].pc \in {"disc_unreg", "fail_unreg"} /\ wk[w].alive
    /\ g_registry' = StoreActive(wk[w].registrySlot_, FALSE)
    /\ holder' = [holder EXCEPT ![wk[w].registrySlot_] = <<>>]
    /\ wk' = [wk EXCEPT ![w].pc = IF wk[w].pc = "disc_unreg"
                                  THEN "disc_version" ELSE "fail_version"]
    /\ UNCHANGED <<seg, shm, g_activeClients, g_running, main, scanner, sent,
                   received, log, ringVars>>

\* unregister_client: version.fetch_add(1); in disconnect() registrySlot_ = -1
WkUnregisterVersion(w) ==
    /\ wk[w].pc \in {"disc_version", "fail_version"} /\ wk[w].alive
    /\ g_registry' = [g_registry EXCEPT !.version = @ + 1]
    /\ wk' = IF wk[w].pc = "disc_version"
             THEN [wk EXCEPT ![w].pc = "disc_flag", ![w].registrySlot_ = -1]
             ELSE [wk EXCEPT ![w].pc = "fail_destroy"]
    /\ UNCHANGED <<seg, shm, g_activeClients, g_running, main, scanner, sent,
                   received, log, holder, ringVars>>

\* disconnect(): channel_->setClientConnected(false)
WkClearConnected(w) ==
    /\ wk[w].pc = "disc_flag" /\ wk[w].alive
    /\ seg' = [seg EXCEPT ![wk[w].channel_].client_connected = FALSE]
    /\ wk' = [wk EXCEPT ![w].pc = "disc_destroy"]
    /\ UNCHANGED <<shm, g_registry, g_activeClients, g_running, main, scanner, sent,
                   received, log, holder, ringVars>>

\* mutant of WkDestroyChannel: the worker detaches and leaves the name linked
WkDestroyChannel_Detach(w) ==
    /\ wk[w].pc \in {"disc_destroy", "fail_destroy", "reg_full"} /\ wk[w].alive
    /\ wk' = [wk EXCEPT ![w].pc = "idle", ![w].channel_ = 0,
                        ![w].registrySlot_ = -1, ![w].connected_ = FALSE]
    /\ UNCHANGED <<seg, shm, g_registry, g_activeClients, g_running, main,
                   scanner, sent, received, log, holder, ringVars>>

\* destroyChannel(channelName_); channel_.reset(); registry_.reset():
\* the end of disconnect() and of the two failure paths of connect()
WkDestroyChannel(w) ==
    /\ wk[w].pc \in {"disc_destroy", "fail_destroy", "reg_full"} /\ wk[w].alive
    /\ shm' = ShmUnlink(ChannelName(w))
    /\ wk' = [wk EXCEPT ![w].pc = "idle", ![w].channel_ = 0,
                        ![w].registrySlot_ = -1, ![w].connected_ = FALSE]
    /\ UNCHANGED <<seg, g_registry, g_activeClients, g_running, main, scanner, sent,
                   received, log, holder, ringVars>>

\* the worker process dies; nothing of what it left in shared memory changes
WkCrash(w) ==
    /\ wk[w].alive /\ wk[w].pc # "idle"
    /\ Crashes < MaxCrashes
    /\ wk' = [wk EXCEPT ![w] = [ShmClientConnection_init EXCEPT
                                   !.pc = "dead", !.alive = FALSE,
                                   !.connects = wk[w].connects]]
    /\ UNCHANGED <<seg, shm, g_registry, g_activeClients, g_running, main, scanner,
                   sent, received, log, holder, ringVars>>

Worker(w) ==
    \/ WkConnect(w) \/ WkCreateChannel(w) \/ WkRegisterCas(w)
    \/ WkRegisterFields(w) \/ WkRegisterVersion(w)
    \/ WkSetConnected(w) \/ WkWaitReady(w) \/ WkWaitTimeout(w)
    \/ WkDisconnect(w) \/ WkUnregisterStore(w) \/ WkUnregisterVersion(w)
    \/ WkClearConnected(w) \/ WkDestroyChannel(w) \/ WkCrash(w)

(***************************************************************************)
(* registryScannerThread.                                                  *)
(***************************************************************************)
\* while (g_running) { currentVersion = version.load();
\*                     if (currentVersion != lastVersion) scan ...
ScanTop ==
    /\ scanner.pc = "top"
    /\ scanner' =
          IF ~g_running THEN [scanner EXCEPT !.pc = "exited"]
          ELSE IF g_registry.version # scanner.lastVersion
               THEN [scanner EXCEPT !.pc = "scan", !.i = 0,
                                    !.currentVersion = g_registry.version]
               ELSE [scanner EXCEPT !.pc = "cleanup"]
    /\ UNCHANGED <<seg, shm, g_registry, g_activeClients, g_running, main, wk, sent,
                   received, log, holder, ringVars>>

\* discoverAndServiceNewClient without its test for a record of the slot
Discovered_NoSlotCheck(slot) ==
    LET entry == g_registry.entries[slot] IN
    IF \E c \in g_activeClients : c.shmName = entry.shm_name
    THEN g_activeClients
    ELSE IF ShmOpen(entry.shm_name) = 0 THEN g_activeClients
    ELSE g_activeClients \cup
            {ActiveClient(slot, entry.shm_name, entry.client_type,
                          entry.unique_id, entry.client_pid,
                          ShmOpen(entry.shm_name), holder[slot])}

\* discoverAndServiceNewClient without its test for a record of the name
Discovered_NoNameCheck(slot) ==
    LET entry == g_registry.entries[slot] IN
    IF \E c \in g_activeClients : c.registrySlot = slot THEN g_activeClients
    ELSE IF ShmOpen(entry.shm_name) = 0 THEN g_activeClients
    ELSE g_activeClients \cup
            {ActiveClient(slot, entry.shm_name, entry.client_type,
                          entry.unique_id, entry.client_pid,
                          ShmOpen(entry.shm_name), holder[slot])}

\* discoverAndServiceNewClient(slot): the client set after the call
Discovered(slot) ==
    LET entry == g_registry.entries[slot] IN
    IF \E c \in g_activeClients : c.registrySlot = slot THEN g_activeClients
    ELSE IF \E c \in g_activeClients : c.shmName = entry.shm_name
         THEN g_activeClients
    ELSE IF ShmOpen(entry.shm_name) = 0 THEN g_activeClients
    ELSE g_activeClients \cup
            {ActiveClient(slot, entry.shm_name, entry.client_type,
                          entry.unique_id, entry.client_pid,
                          ShmOpen(entry.shm_name), holder[slot])}

\* for (i ...) if (entries[i].active.load()) discoverAndServiceNewClient(i);
\* after the last slot lastVersion = currentVersion
ScanSlot ==
    /\ scanner.pc = "scan"
    /\ g_activeClients' = IF g_registry.entries[scanner.i].active
                          THEN Discovered(scanner.i) ELSE g_activeClients
    /\ scanner' = IF scanner.i + 1 < MAX_REGISTERED_CLIENTS
                  THEN [scanner EXCEPT !.i = @ + 1]
                  ELSE [scanner EXCEPT !.pc = "cleanup", !.i = 0,
                                       !.currentVersion = 0,
                                       !.lastVersion = scanner.currentVersion]
    /\ UNCHANGED <<seg, shm, g_registry, g_running, main, wk, sent, received, log,
                   holder, ringVars>>

\* the test of the first loop of cleanupDisconnectedClients
Disconnected(c) ==
    \/ ~g_registry.entries[c.registrySlot].active
    \/ ~seg[c.channel].client_connected
    \/ ~isProcessAlive(c.clientPid)

\* the elements of a set of numbers in increasing order (std::map order)
Ascending(S) ==
    [k \in 1..Cardinality(S) |->
        CHOOSE x \in S : Cardinality({y \in S : y < x}) = k - 1]

\* cleanupDisconnectedClients, first loop: running = false and toRemove
CleanupMark ==
    /\ scanner.pc = "cleanup"
    /\ g_activeClients' =
          {IF Disconnected(c) THEN [c EXCEPT !.running = FALSE] ELSE c :
             c \in g_activeClients}
    /\ LET toRemove == Ascending({c.registrySlot :
                           c \in {d \in g_activeClients : Disconnected(d)}})
       IN  scanner' = [scanner EXCEPT
                          !.toRemove = toRemove,
                          !.pc = IF toRemove = <<>> THEN "top" ELSE "reap_store"]
    /\ UNCHANGED <<seg, shm, g_registry, g_running, main, wk, sent, received, log,
                   holder, ringVars>>

\* the client record the second loop is at
Reaped == CHOOSE c \in g_activeClients : c.registrySlot = Head(scanner.toRemove)

\* mutant of ReapStore: the entry is left alone
ReapStore_Skip ==
    /\ scanner.pc = "reap_store"
    /\ scanner' = [scanner EXCEPT !.pc = "reap_unlink"]
    /\ UNCHANGED <<seg, shm, g_registry, g_activeClients, g_running, main, wk, sent,
                   received, log, holder, ringVars>>

\* second loop: g_registry->entries[slot].active.store(false)
ReapStore ==
    /\ scanner.pc = "reap_store"
    /\ g_registry' = StoreActive(Reaped.registrySlot, FALSE)
    /\ holder' = [holder EXCEPT ![Reaped.registrySlot] = <<>>]
    /\ scanner' = [scanner EXCEPT !.pc = "reap_unlink"]
    /\ UNCHANGED <<seg, shm, g_activeClients, g_running, main, wk, sent, received,
                   log, ringVars>>

\* mutant of ReapUnlink: the name is left in place
ReapUnlink_Skip ==
    /\ scanner.pc = "reap_unlink"
    /\ scanner' = [scanner EXCEPT !.pc = "reap_erase"]
    /\ UNCHANGED <<seg, shm, g_registry, g_activeClients, g_running, main, wk, sent,
                   received, log, holder, ringVars>>

\* second loop: SharedMemoryHelper::unlink(client->shmName)
ReapUnlink ==
    /\ scanner.pc = "reap_unlink"
    /\ shm' = ShmUnlink(Reaped.shmName)
    /\ scanner' = [scanner EXCEPT !.pc = "reap_erase"]
    /\ UNCHANGED <<seg, g_registry, g_activeClients, g_running, main, wk, sent,
                   received, log, holder, ringVars>>

\* mutant of ReapErase: the record is destroyed without the join
ReapErase_NoJoin ==
    /\ scanner.pc = "reap_erase"
    /\ seg' = [seg EXCEPT ![Reaped.channel].scheduler_ready = FALSE]
    /\ g_activeClients' = g_activeClients \ {Reaped}
    /\ scanner' = [scanner EXCEPT
                      !.toRemove = Tail(@),
                      !.pc = IF Tail(scanner.toRemove) = <<>>
                             THEN "top" ELSE "reap_store"]
    /\ UNCHANGED <<shm, g_registry, g_running, main, wk, sent, received, log,
                   holder, ringVars>>

\* second loop: g_activeClients.erase(it), that is ~ActiveClient: the join
\* returns once the service thread has left serviceClientChannel, then
\* scheduler_ready.store(false) and unmap
ReapErase ==
    /\ scanner.pc = "reap_erase"
    /\ Reaped.pc = "exited"
    /\ seg' = [seg EXCEPT ![Reaped.channel].scheduler_ready = FALSE]
    /\ g_activeClients' = g_activeClients \ {Reaped}
    /\ scanner' = [scanner EXCEPT
                      !.toRemove = Tail(@),
                      !.pc = IF Tail(scanner.toRemove) = <<>>
                             THEN "top" ELSE "reap_store"]
    /\ UNCHANGED <<shm, g_registry, g_running, main, wk, sent, received, log,
                   holder, ringVars>>

Scanner ==
    ScanTop \/ ScanSlot \/ CleanupMark \/ ReapStore \/ ReapUnlink \/ ReapErase

\* the service thread of a client whose worker sends nothing
IdleServiceThread(s) ==
    \E c \in g_activeClients :
        /\ c.registrySlot = s
        /\ (SvcStart(c) \/ SvcLoop(c) \/ SvcPop(c))

\* the server has created the registry and set its ready flag
InitLife ==
    /\ seg = <<>>
    /\ shm = [n \in ChannelNames |-> 0]
    /\ g_registry = [ClientRegistry_init EXCEPT !.scheduler_ready = TRUE]
    /\ g_activeClients = {}
    /\ g_running = TRUE
    /\ main = "serving"
    /\ scanner = Scanner_init
    /\ wk = [w \in Workers |-> ShmClientConnection_init]
    /\ sent = [w \in Workers |-> <<>>]
    /\ received = [w \in Workers |-> <<>>]
    /\ log = [s \in Slots |-> <<>>]
    /\ holder = [s \in Slots |-> <<>>]
    /\ RingIdle

NextLife ==
    \/ \E w \in Workers : Worker(w)
    \/ Scanner
    \/ \E s \in Slots : IdleServiceThread(s)

SpecLife == InitLife /\ [][NextLife]_vars


(***************************************************************************)
(* ClientRegistry as an object: register_client and unregister_client as   *)
(* whole calls, one caller at a time.                                      *)
(***************************************************************************)
\* the descriptor register_client writes for worker w
Descriptor(w) ==
    [active |-> TRUE, shm_name |-> ChannelName(w), client_type |-> "pytorch",
     unique_id |-> w, client_pid |-> Pid(w)]

RECURSIVE RegisterFrom(_, _, _, _, _, _)
\* the loop of register_client from index i on: the first entry whose flag
\* the compare-and-set finds false is claimed and written, version is bumped
RegisterFrom(reg, i, shm_name, client_type, unique_id, pid) ==
    IF i >= MAX_REGISTERED_CLIENTS THEN [registry |-> reg, ret |-> -1]
    ELSE IF ~reg.entries[i].active
         THEN [registry |->
                  [reg EXCEPT !.entries[i] =
                                  [active |-> TRUE, shm_name |-> shm_name,
                                   client_type |-> client_type,
                                   unique_id |-> unique_id, client_pid |-> pid],
                              !.version = @ + 1],
               ret |-> i]
    ELSE RegisterFrom(reg, i + 1, shm_name, client_type, unique_id, pid)

\* mutant of register_client: the loop starts at index 1
register_client_SkipFirst(reg, shm_name, client_type, unique_id, pid) ==
    RegisterFrom(reg, 1, shm_name, client_type, unique_id, pid)

\* int register_client(shm_name, client_type, unique_id, pid)
register_client(reg, shm_name, client_type, unique_id, pid) ==
    RegisterFrom(reg, 0, shm_name, client_type, unique_id, pid)

\* mutant of unregister_client: the entry is wiped as well
unregister_client_Wipe(reg, slot) ==
    IF slot >= 0 /\ slot < MAX_REGISTERED_CLIENTS
    THEN [reg EXCEPT !.entries[slot] = ClientRegistryEntry_init,
                     !.version = @ + 1]
    ELSE reg

\* void unregister_client(int slot)
unregister_client(reg, slot) ==
    IF slot >= 0 /\ slot < MAX_REGISTERED_CLIENTS
    THEN [reg EXCEPT !.entries[slot].active = FALSE, !.version = @ + 1]
    ELSE reg

\* register_client calls in one run of the registry on its own
MaxCalls == 3

\* worker w calls register_client with its descriptor; registrySlot_ takes
\* the value returned
RegisterCall(w) ==
    /\ TotalConnects < MaxCalls
    /\ \E r \in {register_client(g_registry, ChannelName(w), "pytorch", w, Pid(w))} :
          /\ g_registry' = r.registry
          /\ wk' = [wk EXCEPT ![w].registrySlot_ = r.ret, ![w].connects = @ + 1]
    /\ UNCHANGED <<seg, shm, g_activeClients, g_running, main, scanner, sent,
                   received, log, holder, ringVars>>

\* somebody calls unregister_client(slot), slot in range or not
UnregisterCall(slot) ==
    /\ g_registry.version < 2 * MaxCalls
    /\ g_registry' = unregister_client(g_registry, slot)
    /\ UNCHANGED <<seg, shm, g_activeClients, g_running, main, scanner, wk, sent,
                   received, log, holder, ringVars>>

InitRegistry == InitLife

NextRegistry ==
    \/ \E w \in Workers : RegisterCall(w)
    \/ \E slot \in -1..MAX_REGISTERED_CLIENTS : UnregisterCall(slot)

SpecRegistry == InitRegistry /\ [][NextRegistry]_vars

(***************************************************************************)
(* A full registry: every slot is held by a resident client that is        *)
(* connected, served and quiet, and the workers try to connect.            *)
(***************************************************************************)
\* the channel name of the resident client of slot s
ResidentName(s) == "/ks_resident_" \o ToString(s)

\* the residents registered without a pid (register_client's pid = 0), which
\* isProcessAlive takes for alive
ResidentEntry(s) ==
    [active |-> TRUE, shm_name |-> ResidentName(s), client_type |-> "pytorch",
     unique_id |-> ResidentName(s), client_pid |-> 0]

FullRegistry ==
    [scheduler_ready |-> TRUE,
     version |-> MAX_REGISTERED_CLIENTS,
     entries |-> [s \in Slots |-> ResidentEntry(s)]]

\* the client record discoverAndServiceNewClient made for the resident of s
\* (the last resident registered while the scan that adopted it was running,
\* so that scan left lastVersion one behind)
ResidentClient(s) ==
    ActiveClient(s, ResidentName(s), "pytorch", ResidentName(s), 0, s + 1,
                 <<"resident", s>>)

InitFull ==
    /\ seg = [k \in 1..MAX_REGISTERED_CLIENTS |->
                [ClientChannel_init EXCEPT !.client_connected = TRUE]]
    /\ shm = [n \in ChannelNames \cup {ResidentName(s) : s \in Slots} |->
                IF \E s \in Slots : ResidentName(s) = n
                THEN (CHOOSE s \in Slots : ResidentName(s) = n) + 1 ELSE 0]
    /\ g_registry = FullRegistry
    /\ g_activeClients = {ResidentClient(s) : s \in Slots}
    /\ g_running = TRUE
    /\ main = "serving"
    /\ scanner = [Scanner_init EXCEPT !.lastVersion = MAX_REGISTERED_CLIENTS - 1]
    /\ wk = [w \in Workers |-> ShmClientConnection_init]
    /\ sent = [w \in Workers |-> <<>>]
    /\ received = [w \in Workers |-> <<>>]
    /\ log = [s \in Slots |-> <<>>]
    /\ holder = [s \in Slots |-> <<"resident", s>>]
    /\ RingIdle

\* connect() up to the register call that finds no free entry, and the server
NextFull ==
    \/ \E w \in Workers :
          \/ WkConnect(w) \/ WkCreateChannel(w) \/ WkRegisterCas(w)
          \/ WkDestroyChannel(w) \/ WkCrash(w)
    \/ ScanTop \/ ScanSlot \/ CleanupMark
    \/ \E s \in Slots : IdleServiceThread(s)

SpecFull == InitFull /\ [][NextFull]_vars

(***************************************************************************)
(* A slot used again.  Worker A has connected, was served, has             *)
(* disconnected and its client record was reaped; the next register call   *)
(* finds slot 0 free with A's descriptor still in it.  The descriptor      *)
(* writes of register_client are taken one store after the other here.     *)
(***************************************************************************)
\* register_client: the three strncpy into the claimed entry
WkRegisterNames(w) ==
    /\ wk[w].pc = "reg_fields" /\ wk[w].alive
    /\ g_registry' = [g_registry EXCEPT
                        !.entries[wk[w].i].shm_name = ChannelName(w),
                        !.entries[wk[w].i].client_type = "pytorch",
                        !.entries[wk[w].i].unique_id = w]
    /\ wk' = [wk EXCEPT ![w].pc = "reg_pid"]
    /\ UNCHANGED <<seg, shm, g_activeClients, g_running, main, scanner, sent,
                   received, log, holder, ringVars>>

\* register_client: client_pid.store(pid) (and the heartbeat)
WkRegisterPid(w) ==
    /\ wk[w].pc = "reg_pid" /\ wk[w].alive
    /\ g_registry' = [g_registry EXCEPT !.entries[wk[w].i].client_pid = Pid(w)]
    /\ wk' = [wk EXCEPT ![w].pc = "reg_version"]
    /\ UNCHANGED <<seg, shm, g_activeClients, g_running, main, scanner, sent,
                   received, log, holder, ringVars>>

\* the state after A's first session: A's unregister stored active = false,
\* the reaper removed A's client record in its next pass (a pass that saw no
\* new version and so left lastVersion at 1), then A bumped version to 2,
\* cleared client_connected and destroyed its channel
InitReuse ==
    /\ seg = <<ClientChannel_init>>
    /\ shm = [n \in ChannelNames |-> 0]
    /\ g_registry =
          [scheduler_ready |-> TRUE,
           version |-> 2,
           entries |-> [s \in Slots |->
               IF s = 0 THEN [Descriptor("A") EXCEPT !.active = FALSE]
               ELSE ClientRegistryEntry_init]]
    /\ g_activeClients = {}
    /\ g_running = TRUE
    /\ main = "serving"
    /\ scanner = [Scanner_init EXCEPT !.lastVersion = 1]
    /\ wk = [w \in Workers |->
               IF w = "A" THEN [ShmClientConnection_init EXCEPT !.connects = 1]
               ELSE ShmClientConnection_init]
    /\ sent = [w \in Workers |-> <<>>]
    /\ received = [w \in Workers |-> <<>>]
    /\ log = [s \in Slots |-> <<>>]
    /\ holder = [s \in Slots |-> <<>>]
    /\ RingIdle

NextReuse ==
    \/ \E w \in Workers :
          \/ WkConnect(w) \/ WkCreateChannel(w) \/ WkRegisterCas(w)
          \/ WkRegisterNames(w) \/ WkRegisterPid(w) \/ WkRegisterVersion(w)
          \/ WkSetConnected(w) \/ WkWaitReady(w) \/ WkWaitTimeout(w)
          \/ WkDisconnect(w) \/ WkUnregisterStore(w) \/ WkUnregisterVersion(w)
          \/ WkClearConnected(w) \/ WkDestroyChannel(w) \/ WkCrash(w)
    \/ Scanner
    \/ \E s \in Slots : IdleServiceThread(s)

SpecReuse == InitReuse /\ [][NextReuse]_vars

(***************************************************************************)
(* The death of a worker process, remembered.  The process is gone at any  *)
(* point after connect() was entered; nothing of disconnect() runs.  The   *)
(* record left behind says whether connect() had returned true, which is   *)
(* all that is kept of the dead process.                                   *)
(***************************************************************************)
WkDie(w) ==
    /\ wk[w].alive /\ wk[w].pc # "idle"
    /\ Crashes < MaxCrashes
    /\ wk' = [wk EXCEPT ![w] = [ShmClientConnection_init EXCEPT
                                   !.pc = "dead", !.alive = FALSE,
                                   !.connected_ = (wk[w].pc = "connected"),
                                   !.connects = wk[w].connects]]
    /\ UNCHANGED <<seg, shm, g_registry, g_activeClients, g_running, main, scanner,
                   sent, received, log, holder, ringVars>>

\* worker A's connect() has returned true: its channel is segment 1 under
\* /ks_A, it holds slot 0, the scan has adopted it and its service thread
\* is in its loop; worker B has not started
InitAttached ==
    /\ seg = <<[ClientChannel_init EXCEPT !.client_connected = TRUE,
                                          !.scheduler_ready = TRUE]>>
    /\ shm = [n \in ChannelNames |-> IF n = ChannelName("A") THEN 1 ELSE 0]
    /\ g_registry =
          [scheduler_ready |-> TRUE,
           version |-> 1,
           entries |-> [s \in Slots |->
               IF s = 0 THEN Descriptor("A") ELSE ClientRegistryEntry_init]]
    /\ g_activeClients =
          {[ActiveClient(0, ChannelName("A"), "pytorch", "A", Pid("A"), 1,
                         <<"A", 1>>) EXCEPT !.pc = "loop"]}
    /\ g_running = TRUE
    /\ main = "serving"
    /\ scanner = [Scanner_init EXCEPT !.lastVersion = 1]
    /\ wk = [w \in Workers |->
               IF w = "A"
               THEN [ShmClientConnection_init EXCEPT
                        !.pc = "connected", !.registrySlot_ = 0,
                        !.channel_ = 1, !.connected_ = TRUE, !.connects = 1]
               ELSE ShmClientConnection_init]
    /\ sent = [w \in Workers |-> <<>>]
    /\ received = [w \in Workers |-> <<>>]
    /\ log = [s \in Slots |-> <<>>]
    /\ holder = [s \in Slots |-> IF s = 0 THEN <<"A", 1>> ELSE <<>>]
    /\ RingIdle

NextDeath ==
    \/ \E w \in Workers :
          \/ WkConnect(w) \/ WkCreateChannel(w) \/ WkRegisterCas(w)
          \/ WkRegisterFields(w) \/ WkRegisterVersion(w)
          \/ WkSetConnected(w) \/ WkWaitReady(w) \/ WkWaitTimeout(w)
          \/ WkDisconnect(w) \/ WkUnregisterStore(w) \/ WkUnregisterVersion(w)
          \/ WkClearConnected(w) \/ WkDestroyChannel(w) \/ WkDie(w)
    \/ Scanner
    \/ \E s \in Slots : IdleServiceThread(s)

SpecDeath == InitAttached /\ [][NextDeath]_vars

\* the scanner thread and every service thread are threads of the running
\* server process: each keeps taking its next step
FairSpecDeath ==
    /\ SpecDeath
    /\ WF_vars(Scanner)
    /\ \A s \in Slots : WF_vars(IdleServiceThread(s))

(***************************************************************************)
(* Shutdown of the server: the signal handler clears g_running, main()     *)
(* leaves its wait loop, joins the scanner thread and runs                 *)
(* cleanupSharedMemory().  The registry's name is part of the namespace    *)
(* here; its segment is not one of seg, the name maps to -1 while linked.  *)
(***************************************************************************)
RegistryName == "/kernel_scheduler_registry"

\* signalHandler: g_running.store(false)
Signal ==
    /\ g_running
    /\ g_running' = FALSE
    /\ UNCHANGED <<seg, shm, g_registry, g_activeClients, main, scanner, wk,
                   sent, received, log, holder, ringVars>>

\* main: while (g_running.load()) sleep(1);
MainWait ==
    /\ main = "serving" /\ ~g_running
    /\ main' = "join"
    /\ UNCHANGED <<seg, shm, g_registry, g_activeClients, g_running, scanner,
                   wk, sent, received, log, holder, ringVars>>

\* mutant of MainJoin: main goes on without waiting for the scan thread
MainJoin_NoWait ==
    /\ main = "join"
    /\ main' = "stop"
    /\ UNCHANGED <<seg, shm, g_registry, g_activeClients, g_running, scanner,
                   wk, sent, received, log, holder, ringVars>>

\* main: scannerThread.join()
MainJoin ==
    /\ main = "join" /\ scanner.pc = "exited"
    /\ main' = "stop"
    /\ UNCHANGED <<seg, shm, g_registry, g_activeClients, g_running, scanner,
                   wk, sent, received, log, holder, ringVars>>

\* cleanupSharedMemory: running.store(false) for every client
CleanupStop ==
    /\ main = "stop"
    /\ g_activeClients' = {[c EXCEPT !.running = FALSE] : c \in g_activeClients}
    /\ main' = "clear"
    /\ UNCHANGED <<seg, shm, g_registry, g_running, scanner, wk, sent,
                   received, log, holder, ringVars>>

\* the record g_activeClients.clear() destroys next (std::map order)
Cleared ==
    CHOOSE c \in g_activeClients :
        \A d \in g_activeClients : c.registrySlot <= d.registrySlot

\* cleanupSharedMemory: g_activeClients.clear(), one ~ActiveClient at a
\* time: join the service thread, scheduler_ready.store(false), unmap;
\* nothing is unlinked
CleanupClear ==
    /\ main = "clear"
    /\ IF g_activeClients = {}
       THEN /\ main' = "ready"
            /\ UNCHANGED <<seg, g_activeClients>>
       ELSE /\ Cleared.pc = "exited"
            /\ seg' = [seg EXCEPT ![Cleared.channel].scheduler_ready = FALSE]
            /\ g_activeClients' = g_activeClients \ {Cleared}
            /\ main' = main
    /\ UNCHANGED <<shm, g_registry, g_running, scanner, wk, sent, received,
                   log, holder, ringVars>>

\* mutant of CleanupReady: the flag is left as it is
CleanupReady_Skip ==
    /\ main = "ready"
    /\ main' = "unlink"
    /\ UNCHANGED <<seg, shm, g_registry, g_activeClients, g_running, scanner,
                   wk, sent, received, log, holder, ringVars>>

\* cleanupSharedMemory: g_registry->scheduler_ready.store(false)
CleanupReady ==
    /\ main = "ready"
    /\ g_registry' = [g_registry EXCEPT !.scheduler_ready = FALSE]
    /\ main' = "unlink"
    /\ UNCHANGED <<seg, shm, g_activeClients, g_running, scanner, wk, sent,
                   received, log, holder, ringVars>>

\* cleanupSharedMemory: unmap_registry, unlink_registry, g_registry = nullptr
CleanupUnlink ==
    /\ main = "unlink"
    /\ shm' = ShmUnlink(RegistryName)
    /\ main' = "done"
    /\ UNCHANGED <<seg, g_registry, g_activeClients, g_running, scanner, wk,
                   sent, received, log, holder, ringVars>>

Main ==
    MainWait \/ MainJoin \/ CleanupStop \/ CleanupClear \/ CleanupReady
    \/ CleanupUnlink

\* the server is up with its registry linked; worker A is connected and
\* served as in InitAttached, worker B has not started
InitShutdown ==
    /\ seg = <<[ClientChannel_init EXCEPT !.client_connected = TRUE,
                                          !.scheduler_ready = TRUE]>>
    /\ shm = [n \in ChannelNames \cup {RegistryName} |->
                IF n = RegistryName THEN -1
                ELSE IF n = ChannelName("A") THEN 1 ELSE 0]
    /\ g_registry =
          [scheduler_ready |-> TRUE,
           version |-> 1,
           entries |-> [s \in Slots |->
               IF s = 0 THEN Descriptor("A") ELSE ClientRegistryEntry_init]]
    /\ g_activeClients =
          {[ActiveClient(0, ChannelName("A"), "pytorch", "A", Pid("A"), 1,
                         <<"A", 1>>) EXCEPT !.pc = "loop"]}
    /\ g_running = TRUE
    /\ main = "serving"
    /\ scanner = [Scanner_init EXCEPT !.lastVersion = 1]
    /\ wk = [w \in Workers |->
               IF w = "A"
               THEN [ShmClientConnection_init EXCEPT
                        !.pc = "connected", !.registrySlot_ = 0,
                        !.channel_ = 1, !.connected_ = TRUE, !.connects = 1]
               ELSE ShmClientConnection_init]
    /\ sent = [w \in Workers |-> <<>>]
    /\ received = [w \in Workers |-> <<>>]
    /\ log = [s \in Slots |-> <<>>]
    /\ holder = [s \in Slots |-> IF s = 0 THEN <<"A", 1>> ELSE <<>>]
    /\ RingIdle

NextShutdown ==
    \/ \E w \in Workers : Worker(w)
    \/ Scanner
    \/ \E s \in Slots : IdleServiceThread(s)
    \/ Signal
    \/ Main

SpecShutdown == InitShutdown /\ [][NextShutdown]_vars

\* main(), the scanner thread and the service threads are threads of the
\* server process and keep running; the signal comes from outside
FairSpecShutdown ==
    /\ SpecShutdown
    /\ WF_vars(Scanner)
    /\ \A s \in Slots : WF_vars(IdleServiceThread(s))
    /\ WF_vars(Main)

(***************************************************************************)
(* connect() calls that fail.  The run starts either with the registry     *)
(* full (register_client returns -1) or with one worker connected and a    *)
(* free slot (the wait for the channel's scheduler_ready can time out).    *)
(***************************************************************************)
InitFail == InitFull \/ InitAttached

SpecFail == InitFail /\ [][NextDeath]_vars

(***************************************************************************)
(* SharedMemoryHelper::create_or_open and create_or_open_registry, called  *)
(* on names that may or may not exist, between stores of the segments'     *)
(* users.                                                                  *)
(***************************************************************************)
\* create_or_open(shm_name, create): shm_open with O_CREAT when create, mmap,
\* and init() when create; ret = 0 is the nullptr of a failed shm_open
create_or_open(shm_name, create) ==
    IF shm[shm_name] = 0
    THEN IF create
         THEN [ret |-> Len(seg) + 1,
               seg |-> Append(seg, ClientChannel_init),
               shm |-> [shm EXCEPT ![shm_name] = Len(seg) + 1]]
         ELSE [ret |-> 0, seg |-> seg, shm |-> shm]
    ELSE [ret |-> shm[shm_name],
          seg |-> IF create
                  THEN [seg EXCEPT ![shm[shm_name]] = ClientChannel_init]
                  ELSE seg,
          shm |-> shm]

\* one call of create_or_open
ChannelOpen ==
    \E n \in ChannelNames, create \in BOOLEAN :
       \E r \in {create_or_open(n, create)} :
          /\ seg' = r.seg
          /\ shm' = r.shm
          /\ UNCHANGED <<g_registry, g_activeClients, g_running, main, scanner,
                         wk, sent, received, log, holder, ringVars>>

\* one call of create_or_open_registry(create): registry->init() when create
RegistryOpen ==
    \E create \in BOOLEAN :
       /\ shm[RegistryName] # 0 \/ create
       /\ shm' = [shm EXCEPT ![RegistryName] = -1]
       /\ g_registry' = IF create THEN ClientRegistry_init ELSE g_registry
       /\ UNCHANGED <<seg, g_activeClients, g_running, main, scanner, wk, sent,
                      received, log, holder, ringVars>>

\* a user of a mapped channel stores to it: setClientConnected(true)
ChannelStore ==
    \E k \in 1..Len(seg) :
       /\ ~seg[k].client_connected
       /\ seg' = [seg EXCEPT ![k].client_connected = TRUE]
       /\ UNCHANGED <<shm, g_registry, g_activeClients, g_running, main,
                      scanner, wk, sent, received, log, holder, ringVars>>

\* nothing exists yet
InitOpen ==
    /\ seg = <<>>
    /\ shm = [n \in ChannelNames \cup {RegistryName} |-> 0]
    /\ g_registry = ClientRegistry_init
    /\ g_activeClients = {}
    /\ g_running = TRUE
    /\ main = "serving"
    /\ scanner = Scanner_init
    /\ wk = [w \in Workers |-> ShmClientConnection_init]
    /\ sent = [w \in Workers |-> <<>>]
    /\ received = [w \in Workers |-> <<>>]
    /\ log = [s \in Slots |-> <<>>]
    /\ holder = [s \in Slots |-> <<>>]
    /\ RingIdle

\* a worker registers only in a registry that is linked
NextOpen ==
    \/ ChannelOpen
    \/ RegistryOpen
    \/ ChannelStore
    \/ \E w \in Workers : shm[RegistryName] # 0 /\ RegisterCall(w)

SpecOpen == InitOpen /\ [][NextOpen]_vars

\* a worker inside register_client or unregister_client finishes the call
\* while its process lives; the server's threads keep running
FairSpecBump ==
    /\ FairSpecDeath
    /\ \A w \in Workers :
          WF_vars(WkRegisterFields(w) \/ WkRegisterVersion(w)
                  \/ WkUnregisterStore(w) \/ WkUnregisterVersion(w))

(***************************************************************************)
(* A worker that has come and gone.  Worker A's connect() has returned     *)
(* true and its disconnect() has returned: slot 0 is free again with A's   *)
(* descriptor left in it, version is 2, /ks_A is unlinked, and the reaper  *)
(* has not yet run, so the record of that connection is still in the       *)
(* active-client table with its service thread in its loop.  That          *)
(* connection is numbered 0: both workers have the whole connect budget    *)
(* before them.                                                            *)
(***************************************************************************)
InitDeparted ==
    /\ seg = <<[ClientChannel_init EXCEPT !.scheduler_ready = TRUE]>>
    /\ shm = [n \in ChannelNames |-> 0]
    /\ g_registry =
          [scheduler_ready |-> TRUE,
           version |-> 2,
           entries |-> [s \in Slots |->
               IF s = 0 THEN [Descriptor("A") EXCEPT !.active = FALSE]
               ELSE ClientRegistryEntry_init]]
    /\ g_activeClients =
          {[ActiveClient(0, ChannelName("A"), "pytorch", "A", Pid("A"), 1,
                         <<"A", 0>>) EXCEPT !.pc = "loop"]}
    /\ g_running = TRUE
    /\ main = "serving"
    /\ scanner = [Scanner_init EXCEPT !.lastVersion = 1]
    /\ wk = [w \in Workers |-> ShmClientConnection_init]
    /\ sent = [w \in Workers |-> <<>>]
    /\ received = [w \in Workers |-> <<>>]
    /\ log = [s \in Slots |-> <<>>]
    /\ holder = [s \in Slots |-> <<>>]
    /\ RingIdle

SpecDeparted == InitDeparted /\ [][NextDeath]_vars

(***************************************************************************)
(* A served worker and the two flags that stop its service thread.  Worker *)
(* A is registered and adopted as in SpecRound; it sends requests of one   *)
(* shape, takes responses or leaves them in the ring, disconnects or dies; *)
(* the scan thread reaps, and a signal may clear g_running.                *)
(***************************************************************************)
NextStop ==
    \/ WkWaitReady("A")
    \/ \E request \in {<<"k", PIPE, "a", PIPE, "s", LF>>} :
          WorkerSend("A", request)
    \/ WorkerRecv("A")
    \/ WkDisconnect("A") \/ WkUnregisterStore("A") \/ WkUnregisterVersion("A")
    \/ WkClearConnected("A") \/ WkDestroyChannel("A") \/ WkDie("A")
    \/ Scanner
    \/ \E s \in Slots : ServiceThread(s)
    \/ Signal

SpecStop == InitRound /\ [][NextStop]_vars

\* the scan thread and the service threads are threads of the running
\* server: each keeps taking its next step, and the clock of push_blocking
\* keeps running, so a push that keeps failing times out
FairSpecStop ==
    /\ SpecStop
    /\ WF_vars(Scanner)
    /\ \A s \in Slots : WF_vars(ServiceThread(s))

(***************************************************************************)
(* The whole life of a channel on the server's side: SpecStop with worker  *)
(* A connecting again after it has left, and main() taking the server down *)
(* after the signal.                                                       *)
(***************************************************************************)
NextCycle ==
    \/ NextStop
    \/ WkConnect("A") \/ WkCreateChannel("A") \/ WkRegisterCas("A")
    \/ WkRegisterFields("A") \/ WkRegisterVersion("A") \/ WkSetConnected("A")
    \/ WkWaitTimeout("A")
    \/ Main

SpecCycle == InitRound /\ [][NextCycle]_vars

(***************************************************************************)
(* push_blocking and pop_blocking on the stand-alone ring: one producer    *)
(* and one consumer, each call a loop of whole try_push / try_pop calls.   *)
(* The clock is the choice, at every failed turn of a call with a timeout  *)
(* above zero, between "the time has passed" and "not yet".                *)
(***************************************************************************)
\* the timeout_ms arguments of the calls: wait for ever, zero, some time
Timeouts == {-1, 0, 5}

ProdOutside == [pc |-> "idle", data |-> <<>>, timeout_ms |-> -1,
                tried |-> FALSE, ret |-> "None"]

ConsOutside == [pc |-> "idle", out_data |-> <<>>, timeout_ms |-> -1,
                tried |-> FALSE, ret |-> "None"]

\* mutant of Elapsed: the wait without a timeout gives up as well
Elapsed_Always(timeout_ms, expired) == expired \/ timeout_ms = 0

\* a failed turn ends the call: there is a timeout (timeout_ms >= 0) and
\* elapsed_ms >= timeout_ms
Elapsed(timeout_ms, expired) == timeout_ms = 0 \/ (timeout_ms > 0 /\ expired)

\* the producer calls push_blocking(data, len, timeout_ms)
PushBlockingBegin(data, timeout_ms) ==
    /\ prod.pc = "idle"
    /\ Len(pushed) < MaxPush
    /\ prod' = [pc |-> "spin", data |-> data, timeout_ms |-> timeout_ms,
                tried |-> FALSE, ret |-> "None"]
    /\ UNCHANGED <<ring, cons, pushed, popped, streak, sysVars>>

\* one turn of the loop of push_blocking: try_push, return true when it
\* succeeded, else return false when there is a timeout and it has passed
PushBlockingTurn ==
    /\ prod.pc = "spin"
    /\ \E r \in {try_push(ring, prod.data)} :
          IF r.ret
          THEN /\ ring' = r.q
               /\ prod' = [prod EXCEPT !.pc = "idle", !.tried = TRUE, !.ret = "Ok"]
               /\ pushed' = Append(pushed, prod.data)
          ELSE /\ \E expired \in BOOLEAN :
                     prod' = IF Elapsed(prod.timeout_ms, expired)
                             THEN [prod EXCEPT !.pc = "idle", !.tried = TRUE,
                                               !.ret = "TimedOut"]
                             ELSE [prod EXCEPT !.tried = TRUE]
               /\ UNCHANGED <<ring, pushed>>
    /\ UNCHANGED <<cons, popped, streak, sysVars>>

\* the consumer calls pop_blocking(out_data, SPSC_MSG_SIZE, timeout_ms)
PopBlockingBegin(timeout_ms) ==
    /\ cons.pc = "idle"
    /\ cons' = [pc |-> "spin", out_data |-> cons.out_data,
                timeout_ms |-> timeout_ms, tried |-> FALSE, ret |-> "None"]
    /\ UNCHANGED <<ring, prod, pushed, popped, streak, sysVars>>

\* one turn of the loop of pop_blocking
PopBlockingTurn ==
    /\ cons.pc = "spin"
    /\ \E r \in {try_pop(ring, SPSC_MSG_SIZE)} :
          IF r.ret
          THEN /\ ring' = r.q
               /\ cons' = [cons EXCEPT !.pc = "idle", !.tried = TRUE,
                                       !.ret = "Ok", !.out_data = r.out_data]
               /\ popped' = Append(popped, r.out_data)
          ELSE /\ \E expired \in BOOLEAN :
                     cons' = IF Elapsed(cons.timeout_ms, expired)
                             THEN [cons EXCEPT !.pc = "idle", !.tried = TRUE,
                                               !.ret = "TimedOut"]
                             ELSE [cons EXCEPT !.tried = TRUE]
               /\ UNCHANGED <<ring, popped>>
    /\ UNCHANGED <<prod, pushed, streak, sysVars>>

InitBlocking ==
    /\ ring = SPSCQueue_init
    /\ prod = ProdOutside
    /\ cons = ConsOutside
    /\ pushed = <<>>
    /\ popped = <<>>
    /\ streak = 0
    /\ SysIdle

NextBlocking ==
    \/ \E data \in RingPayloads : \E timeout_ms \in Timeouts :
          PushBlockingBegin(data, timeout_ms)
    \/ PushBlockingTurn
    \/ \E timeout_ms \in Timeouts : PopBlockingBegin(timeout_ms)
    \/ PopBlockingTurn

SpecBlocking == InitBlocking /\ [][NextBlocking]_vars

\* a caller inside a blocking call keeps spinning
FairSpecBlocking ==
    /\ SpecBlocking
    /\ WF_vars(PushBlockingTurn)
    /\ WF_vars(PopBlockingTurn)

(***************************************************************************)
(* The mutexes of the server: logMutex, statsMutex and clientsMutex, and   *)
(* where main(), registryScannerThread and the service threads lock,       *)
(* unlock and join.  Everything else the threads do is left out; which     *)
(* branch a thread takes is a free choice wherever it depends on data.     *)
(***************************************************************************)
\* the rest of the state, which the lock specification leaves alone
restVars == <<ring, prod, cons, pushed, popped, streak, seg, shm, g_registry,
              g_activeClients, main, scanner, wk, sent, received, log, holder>>

\* std::lock_guard<std::mutex> lock(m): thread t gets m once nobody holds it
Acquire(l, t, m, next) ==
    /\ l.owner[m] = "none"
    /\ locks' = [l EXCEPT !.owner[m] = t, !.at[t] = next]

\* the lock_guard goes out of scope
Release(l, t, m, next) ==
    locks' = [l EXCEPT !.owner[m] = "none", !.at[t] = next]

\* thread t goes to label next
Goto(t, next) == locks' = [locks EXCEPT !.at[t] = next]

\* thread t calls a function that locks (writeLog or a block under logMutex:
\* proc = "lock_log"; recordKernelStat or a block under statsMutex:
\* proc = "lock_stats") and goes on at label ret afterwards
Call(t, proc, ret) == locks' = [locks EXCEPT !.at[t] = proc, !.ret[t] = ret]

\* mutant of LogStats: recordKernelStat writes a log line under statsMutex
LogStats_LogUnderStats(t) ==
    /\ locks.at[t] \in {"lock_log", "in_log", "unlock_log", "lock_stats",
                        "unlock_stats"}
    /\ CASE locks.at[t] = "lock_log" -> Acquire(locks, t, "log", "in_log")
         [] locks.at[t] = "in_log" ->
               \/ Goto(t, "unlock_log")
               \/ t = "main" /\ Goto(t, "lock_stats")
         [] locks.at[t] = "unlock_log" ->
               Release(locks, t, "log", locks.ret[t])
         [] locks.at[t] = "lock_stats" ->
               Acquire(locks, t, "stats",
                       IF locks.owner["log"] = t THEN "unlock_stats" ELSE "lock_log")
         [] locks.at[t] = "unlock_stats" ->
               Release(locks, t, "stats",
                       IF locks.owner["log"] = t THEN "unlock_log" ELSE locks.ret[t])
    /\ UNCHANGED <<g_running, restVars>>

\* the functions that lock logMutex and statsMutex:
\*   writeLog: lock(logMutex); write; unlock
\*   main's blocks { lock(logMutex); rotateLogFile() or flushStatsAndReset() }:
\*     flushStatsAndReset locks statsMutex inside (rotateLogFile calls it when
\*     the file is open)
\*   recordKernelStat and the block at the head of serviceClientChannel:
\*     lock(statsMutex); count; unlock
LogStats(t) ==
    /\ locks.at[t] \in {"lock_log", "in_log", "unlock_log", "lock_stats",
                        "unlock_stats"}
    /\ CASE locks.at[t] = "lock_log" -> Acquire(locks, t, "log", "in_log")
         [] locks.at[t] = "in_log" ->
               \/ Goto(t, "unlock_log")
               \/ t = "main" /\ Goto(t, "lock_stats")
         [] locks.at[t] = "unlock_log" ->
               Release(locks, t, "log", locks.ret[t])
         [] locks.at[t] = "lock_stats" ->
               Acquire(locks, t, "stats", "unlock_stats")
         [] locks.at[t] = "unlock_stats" ->
               Release(locks, t, "stats",
                       IF locks.owner["log"] = t THEN "unlock_log" ELSE locks.ret[t])
    /\ UNCHANGED <<g_running, restVars>>

\* the service threads that have a client record
Recorded == {t \in SvcThreads : locks.at[t] # "none"}

\* the record a clear() or the second loop of the reaper destroys next
FirstOf(S) == CHOOSE t \in S : \A u \in S : t = "svc0" \/ u # "svc0"

\* ~ActiveClient of the record of thread t: running = false, join
Joined(t, next_at, who) ==
    /\ locks.at[t] = "done"
    /\ locks' = [locks EXCEPT !.at[t] = "none", !.running[t] = FALSE,
                              !.toRemove = @ \ {t}, !.at[who] = next_at]

\* main(): the first log file, the scan thread, the wait loop with its two
\* blocks, the join of the scan thread, the last statistics and
\* cleanupSharedMemory
MainThread ==
    /\ CASE locks.at["main"] = "init" -> Call("main", "lock_log", "spawn")
         [] locks.at["main"] = "spawn" ->
               locks' = [locks EXCEPT !.at["main"] = "wait", !.at["scan"] = "top"]
         [] locks.at["main"] = "wait" ->
               Goto("main", IF g_running THEN "rotate" ELSE "join_scan")
         [] locks.at["main"] = "rotate" ->
               \/ Call("main", "lock_log", "status")
               \/ Goto("main", "status")
         [] locks.at["main"] = "status" ->
               \/ Goto("main", "status_lock")
               \/ Goto("main", "wait")
         [] locks.at["main"] = "status_lock" ->
               Acquire(locks, "main", "clients", "status_unlock")
         [] locks.at["main"] = "status_unlock" ->
               Release(locks, "main", "clients", "wait")
         [] locks.at["main"] = "join_scan" ->
               /\ locks.at["scan"] = "done"
               /\ Call("main", "lock_log", "cleanup_lock")
         [] locks.at["main"] = "cleanup_lock" ->
               Acquire(locks, "main", "clients", "cleanup_stop")
         [] locks.at["main"] = "cleanup_stop" ->
               locks' = [locks EXCEPT !.running = [t \in SvcThreads |-> FALSE],
                                      !.at["main"] = "cleanup_clear"]
         [] locks.at["main"] = "cleanup_clear" ->
               IF Recorded = {}
               THEN Goto("main", "cleanup_unlock")
               ELSE Joined(FirstOf(Recorded), "cleanup_clear", "main")
         [] locks.at["main"] = "cleanup_unlock" ->
               Release(locks, "main", "clients", "done")
         [] OTHER -> FALSE
    /\ UNCHANGED <<g_running, restVars>>

\* registryScannerThread: discoverAndServiceNewClient for the active slots
\* when the version changed, then cleanupDisconnectedClients
ScanThread ==
    /\ CASE locks.at["scan"] = "top" ->
               IF ~g_running THEN Goto("scan", "done")
               ELSE \/ Goto("scan", "discover_lock")
                    \/ Goto("scan", "reap_lock")
         [] locks.at["scan"] = "discover_lock" ->
               Acquire(locks, "scan", "clients", "discover")
         [] locks.at["scan"] = "discover" ->
               \/ Goto("scan", "discover_unlock")
               \/ \E t \in SvcThreads \ Recorded :
                     locks' = [locks EXCEPT !.at[t] = "begin", !.running[t] = TRUE,
                                            !.at["scan"] = "discover_unlock"]
         [] locks.at["scan"] = "discover_unlock" ->
               \/ Release(locks, "scan", "clients", "discover_lock")
               \/ Release(locks, "scan", "clients", "reap_lock")
         [] locks.at["scan"] = "reap_lock" ->
               Acquire(locks, "scan", "clients", "reap_mark")
         [] locks.at["scan"] = "reap_mark" ->
               \E D \in SUBSET Recorded :
                  locks' = [locks EXCEPT
                              !.running = [t \in SvcThreads |->
                                             IF t \in D THEN FALSE ELSE @[t]],
                              !.toRemove = D,
                              !.at["scan"] = "reap_join"]
         [] locks.at["scan"] = "reap_join" ->
               IF locks.toRemove = {}
               THEN Goto("scan", "reap_unlock")
               ELSE Joined(FirstOf(locks.toRemove), "reap_join", "scan")
         [] locks.at["scan"] = "reap_unlock" ->
               Release(locks, "scan", "clients", "top")
         [] OTHER -> FALSE
    /\ UNCHANGED <<g_running, restVars>>

\* serviceClientChannel: the session count under statsMutex, the greeting,
\* the loop with its spin, recordKernelStat and the writeLog calls, the
\* farewell after exit_loop
SvcThread(t) ==
    /\ CASE locks.at[t] = "begin" -> Call(t, "lock_stats", "hello")
         [] locks.at[t] = "hello" -> Call(t, "lock_log", "loop")
         [] locks.at[t] = "loop" ->
               Goto(t, IF g_running /\ locks.running[t] THEN "spin" ELSE "bye")
         [] locks.at[t] = "spin" ->
               \/ Goto(t, "serve")
               \/ (~g_running \/ ~locks.running[t]) /\ Goto(t, "bye")
               \/ Call(t, "lock_log", "bye")
         [] locks.at[t] = "serve" ->
               \/ Call(t, "lock_log", "loop")
               \/ Call(t, "lock_stats", "arrived")
         [] locks.at[t] = "arrived" ->
               \/ Call(t, "lock_log", "push")
               \/ Goto(t, "push")
         [] locks.at[t] = "push" ->
               \/ Goto(t, "loop")
               \/ Call(t, "lock_log", "loop")
         [] locks.at[t] = "bye" -> Call(t, "lock_log", "done")
         [] OTHER -> FALSE
    /\ UNCHANGED <<g_running, restVars>>

InitLocks == SysIdle /\ RingIdle

NextLocks ==
    \/ MainThread
    \/ ScanThread
    \/ \E t \in SvcThreads : SvcThread(t)
    \/ \E t \in Threads : LogStats(t)
    \/ Signal

SpecLocks == InitLocks /\ [][NextLocks]_vars
(***************************************************************************)
(* Claims about the ring, checked under SpecRing / FairSpecRing.           *)
(***************************************************************************)
\* the records popped so far are the first records pushed, in push order
PoppedIsPrefixOfPushed ==
    /\ Len(popped) <= Len(pushed)
    /\ popped = SubSeq(pushed, 1, Len(popped))

\* C1: for every interleaving of one producer in try_push and one consumer in
\* try_pop, the successful pops return the successfully pushed records in push
\* order, each once (never lost, never duplicated), and while the consumer
\* keeps popping every pushed record is eventually popped.
C1_PushedPoppedOnceInOrder ==
    /\ []PoppedIsPrefixOfPushed
    /\ \A n \in 1..MaxPush : (Len(pushed) >= n) ~> (Len(popped) >= n)

\* C1 witness: the ring has wrapped, different records went through it and
\* all of them have been popped while the producer is inside another try_push
C1_Witness ==
    /\ Len(pushed) >= SPSC_QUEUE_SIZE
    /\ Len(popped) = Len(pushed)
    /\ pushed[1] # pushed[2]
    /\ prod.pc = "write"

\* C2: size() equals the successful pushes minus the successful pops and lies
\* in 0..Q-1, also after head and tail have wrapped round the slot array.
C2_SizeIsPushesMinusPops ==
    /\ SPSCQueue_size(ring) = Len(pushed) - Len(popped)
    /\ SPSCQueue_size(ring) >= 0
    /\ SPSCQueue_size(ring) <= SPSC_QUEUE_SIZE - 1

\* C2 witness: no call in progress, records in the ring, tail wrapped below head
C2_Witness ==
    /\ prod.pc = "idle" /\ cons.pc = "idle"
    /\ ring.tail < ring.head
    /\ Len(pushed) - Len(popped) = SPSC_QUEUE_SIZE - 1

\* the producer's step that leaves the full test of try_push
PushCheckStep == prod.pc = "check" /\ prod' # prod

\* C3: from an empty ring, at any head position, exactly Q-1 consecutive
\* try_push calls with no pop in between succeed and the next returns Full;
\* the ring holds no record exactly when head == tail and Q-1 records exactly
\* when (tail + 1) mod Q == head.
C3_FullAfterQMinus1Pushes ==
    /\ [](/\ (Len(pushed) - Len(popped) = 0) <=> SPSCQueue_empty(ring)
          /\ (Len(pushed) - Len(popped) = SPSC_QUEUE_SIZE - 1) <=> SPSCQueue_full(ring)
          /\ streak <= SPSC_QUEUE_SIZE - 1)
    /\ [][(PushCheckStep /\ streak >= 0) =>
            ((prod'.ret = "Full") <=> (streak = SPSC_QUEUE_SIZE - 1))]_vars

\* C3 witness: Q-1 pushes in a row from an empty ring whose head is not slot 0,
\* and the push after them returned Full
C3_Witness ==
    /\ streak = SPSC_QUEUE_SIZE - 1
    /\ prod.pc = "idle" /\ prod.ret = "Full"
    /\ ring.head # 0

\* the consumer's step that leaves the empty test of try_pop
PopCheckStep == cons.pc = "check" /\ cons' # cons

\* C4: try_push on a full ring returns Full, try_pop on an empty ring returns
\* Empty, and a call that returns Full or Empty changes neither head nor tail
\* nor any slot.
C4_FullAndEmptyLeaveRingUnchanged ==
    [][/\ (PushCheckStep /\ SPSCQueue_full(ring)) => prod'.ret = "Full"
       /\ (PopCheckStep /\ SPSCQueue_empty(ring)) => cons'.ret = "Empty"
       /\ (prod' # prod /\ prod'.pc \in {"check", "idle"} /\ prod'.ret # "Ok")
             => ring' = ring
       /\ (cons' # cons /\ cons'.pc \in {"check", "idle"} /\ cons'.ret # "Ok")
             => ring' = ring]_vars

\* C4 witness: a push has returned Full on a ring holding records and, later,
\* a pop has returned Empty
C4_Witness ==
    /\ prod.pc = "idle" /\ prod.ret = "Full"
    /\ cons.pc = "idle" /\ cons.ret = "Empty"
    /\ Len(pushed) >= SPSC_QUEUE_SIZE - 1

(***************************************************************************)
(* Claim about the bytes of a record, checked under SpecBytes.             *)
(***************************************************************************)
\* the first min(len, S-1) bytes of a payload
FirstBytes(data) ==
    SubSeq(data, 1, IF Len(data) < SPSC_MSG_SIZE - 1 THEN Len(data)
                    ELSE SPSC_MSG_SIZE - 1)

\* the bytes of s before its first NUL
BeforeNul(s) ==
    SubSeq(s, 1, Min({k \in 0..Len(s) : k = Len(s) \/ s[k + 1] = NUL}))

\* every slot holds a NUL among its own S bytes
SlotsNulTerminated ==
    \A i \in 0..(SPSC_QUEUE_SIZE - 1) :
        \E j \in 0..(SPSC_MSG_SIZE - 1) : ring.buffer[SlotBase(i) + j] = NUL

\* a step changes no byte outside the slot the push writes (slot tail)
OnlyPushedSlotWritten ==
    \A a \in 0..(BufferBytes - 1) :
        (ring'.buffer[a] # ring.buffer[a]) =>
            /\ Len(pushed') = Len(pushed) + 1
            /\ a >= SlotBase(ring.tail)
            /\ a < SlotBase(ring.tail) + SPSC_MSG_SIZE

\* C5 as stated: every record is popped as the first min(len, S-1) bytes of
\* its payload.
C5_PoppedIsFirstBytes ==
    \A i \in 1..Len(popped) : popped[i] = FirstBytes(pushed[i])

\* C5 amended: a record is popped as the first min(len, S-1) bytes of its
\* payload up to, not including, the first NUL byte among them (so a payload
\* without NUL bytes comes back whole when len <= S-1 and as its first S-1
\* bytes otherwise); every slot stays NUL-terminated within its S bytes and a
\* push changes no byte outside its own slot.
C5_PoppedIsFirstBytesBeforeNul ==
    /\ [](/\ \A i \in 1..Len(popped) : popped[i] = BeforeNul(FirstBytes(pushed[i]))
          /\ SlotsNulTerminated)
    /\ [][OnlyPushedSlotWritten]_vars

\* C5 witness: a record of exactly S-1 bytes came back whole, a longer one came
\* back as its first S-1 bytes, and a slot has been written a second time
C5_Witness ==
    /\ Len(pushed) > SPSC_QUEUE_SIZE
    /\ \E i \in 1..Len(popped) :
          Len(pushed[i]) = SPSC_MSG_SIZE - 1 /\ popped[i] = pushed[i]
    /\ \E j \in 1..Len(popped) :
          /\ Len(pushed[j]) > SPSC_MSG_SIZE - 1
          /\ popped[j] = SubSeq(pushed[j], 1, SPSC_MSG_SIZE - 1)


(***************************************************************************)
(* Claims about the service task, checked under SpecRound / SpecMulti.     *)
(***************************************************************************)
\* the records a ring holds, oldest first, as try_pop would return them
RingContents(q) ==
    [k \in 1..SPSCQueue_size(q) |->
        PopReadSlot(q.buffer, (q.head + k - 1) % SPSC_QUEUE_SIZE, SPSC_MSG_SIZE)]

\* the fields of a record as the wire format reads it: the text before the
\* line end, cut at every '|', empty fields included
FieldsOfLine(s) ==
    LET bars == {k \in 1..Len(s) : s[k] = PIPE}
        Bar(j) == IF j = 0 THEN 0
                  ELSE IF j > Cardinality(bars) THEN Len(s) + 1
                  ELSE CHOOSE k \in bars : Cardinality({x \in bars : x < k}) = j - 1
    IN  [j \in 1..(Cardinality(bars) + 1) |-> SubSeq(s, Bar(j - 1) + 1, Bar(j) - 1)]

WireFields(record) == FieldsOfLine(StripLineEnd(record))

\* text is id|0-or-1| followed by a reason without '|'
EchoesId(text, id) ==
    /\ Len(text) >= Len(id) + 3
    /\ \E verdict \in {"0", "1"} :
          SubSeq(text, 1, Len(id) + 3) = id \o <<PIPE, verdict, PIPE>>
    /\ \A k \in (Len(id) + 4)..Len(text) : text[k] # PIPE

\* the records of a slot's history whose response went into the ring
PushedEntries(s) == SelectSeq(log[s], LAMBDA e : e.outcome = "pushed")

\* the responses of a worker's channel: those it popped, then those waiting
ResponsesOf(w) ==
    received[w] \o RingContents(seg[wk[w].channel_].response_queue)

\* a request with at least three fields was answered with its own id
AnsweredWithItsId(e) ==
    /\ e.outcome # "malformed"
    /\ EchoesId(e.response, WireFields(e.req)[2])

EndsWithEmptySourceTag(fields) == Len(fields) = 3 /\ fields[3] = <<>>

WellFormed(record) == Len(split(StripLineEnd(record), PIPE)) >= 3

\* the record the thread of slot s has popped and not yet handled
BeingServed(s) ==
    IF \E c \in g_activeClients : c.registrySlot = s /\ c.pc = "serve"
    THEN <<(CHOOSE c \in g_activeClients :
               c.registrySlot = s /\ c.pc = "serve").buffer>>
    ELSE <<>>

\* the requests of worker w have been popped in order, each once, by the
\* thread of its slot, and its channel carries the responses to its own
\* requests, one for each response pushed, in the order of the requests
ServedInOrder(w) ==
    LET s == wk[w].registrySlot_
        channel == seg[wk[w].channel_]
    IN  /\ [i \in 1..Len(log[s]) |-> log[s][i].req]
              \o BeingServed(s) \o RingContents(channel.request_queue)
           = [j \in 1..Len(sent[w]) |-> FirstBytes(sent[w][j])]
        /\ ResponsesOf(w)
           = [k \in 1..Len(PushedEntries(s)) |->
                 FirstBytes(PushedEntries(s)[k].response)]
        /\ \A i \in 1..Len(log[s]) :
              /\ WellFormed(log[s][i].req) <=> log[s][i].outcome # "malformed"
              /\ WellFormed(log[s][i].req) =>
                    log[s][i].response =
                       createResponseMessage(WireFields(log[s][i].req)[2],
                                             TRUE, <<"O", "K">>)
              /\ log[s][i].outcome = "pending" =>
                    /\ i = Len(log[s])
                    /\ \E c \in g_activeClients :
                          c.registrySlot = s /\ c.pc = "push"

\* every request a worker pushed is, in the end, taken by the service thread
\* and settled
EverySentRequestIsSettled ==
    \A w \in Workers : \A n \in 1..MaxSent :
        (Len(sent[w]) >= n)
           ~> (/\ Len(log[wk[w].registrySlot_]) >= n
               /\ log[wk[w].registrySlot_][n].outcome # "pending")

\* a response is given up only by a push that found the response ring full
DroppedOnlyWhenFull ==
    \A c \in g_activeClients :
        LET s == c.registrySlot IN
        (/\ Len(log[s]) > 0 /\ Len(log'[s]) = Len(log[s])
         /\ log[s][Len(log[s])].outcome = "pending"
         /\ log'[s][Len(log[s])].outcome = "timeout")
           => /\ SPSCQueue_full(seg[c.channel].response_queue)
              /\ seg' = seg

\* C7 as stated: every well-formed request the service task has dealt with
\* has its response in the response ring of its channel.
C7_EveryRequestAnsweredOnce ==
    /\ \A w \in Workers : ServedInOrder(w)
    /\ \A s \in Slots : \A i \in 1..Len(log[s]) :
          WellFormed(log[s][i].req) => log[s][i].outcome \in {"pending", "pushed"}

\* C7 amended: with several workers sending at once, every well-formed request
\* is popped once by the thread of its own channel and answered with at most
\* one response, exactly one unless the push of that response timed out on a
\* response ring that stayed full; responses go only to the response ring of
\* the channel the request came from, in the order of that channel's requests.
C7_AnsweredOnceUnlessPushTimedOut ==
    /\ [](\A w \in Workers : ServedInOrder(w))
    /\ [][DroppedOnlyWhenFull]_vars
    /\ EverySentRequestIsSettled

\* C7 witness: both workers have popped their responses while the other's
\* request was being served, and a malformed record went by on A's channel
C7_Witness ==
    /\ Len(received["A"]) >= 1 /\ Len(received["B"]) >= 1
    /\ \E i \in 1..Len(log[0]) : log[0][i].outcome = "malformed"
    /\ \E i \in 1..Len(log[0]) : log[0][i].outcome = "pushed"
    /\ TotalSent = MaxSent

\* the thread of slot s handles a popped record with fewer than three fields
PopsMalformed(s) ==
    /\ Len(log'[s]) = Len(log[s]) + 1
    /\ ~WellFormed(log'[s][Len(log'[s])].req)

CasStep(w) == wk[w].pc = "register" /\ wk'[w].pc = "reg_fields"

\* worker w executes the store of unregister
UnregisterStep(w) ==
    /\ wk[w].pc \in {"disc_unreg", "fail_unreg"}
    /\ wk'[w].pc \in {"disc_version", "fail_version"}

\* the reaper executes its store to the active flag of the slot it reaps
ReapStep == scanner.pc = "reap_store" /\ scanner'.pc = "reap_unlink"

\* C9: the active flag of a slot goes false->true only by the compare-and-set
\* of register and true->false only by an unregister or by the reaper, and
\* every store of false finds the flag true and the slot held by the
\* registration it is made for: the worker's own for unregister, the one the
\* reaped client record was adopted from for the reaper.
C9_ActiveOnlyTogglesByItsHolder ==
    [][/\ \A s \in Slots :
             /\ (~g_registry.entries[s].active /\ g_registry'.entries[s].active)
                   => \E w \in Workers : CasStep(w) /\ wk[w].i = s
             /\ (g_registry.entries[s].active /\ ~g_registry'.entries[s].active)
                   => \/ \E w \in Workers :
                            UnregisterStep(w) /\ wk[w].registrySlot_ = s
                      \/ ReapStep /\ Reaped.registrySlot = s
       /\ \A w \in Workers :
             UnregisterStep(w) =>
                /\ g_registry.entries[wk[w].registrySlot_].active
                /\ holder[wk[w].registrySlot_] = Ticket(w)
       /\ ReapStep =>
             /\ g_registry.entries[Reaped.registrySlot].active
             /\ holder[Reaped.registrySlot] = Reaped.ticket]_vars

\* the slot a live worker's register call has claimed and the worker has not
\* given back, -1 when there is none
Claimed(w) ==
    IF ~wk[w].alive THEN -1
    ELSE IF wk[w].pc \in {"reg_fields", "reg_version"} THEN wk[w].i
    ELSE IF wk[w].pc \in {"set_connected", "wait_ready", "connected",
                          "disc_unreg", "fail_unreg"}
         THEN wk[w].registrySlot_
    ELSE -1

\* C10: no two workers hold the same slot index from their register calls.
C10_NoSlotClaimedTwice ==
    \A w1 \in Workers : \A w2 \in Workers \ {w1} :
        Claimed(w1) # -1 => Claimed(w1) # Claimed(w2)


(***************************************************************************)
(* Claims about adoption, checked under SpecDeath and SpecDeparted.        *)
(***************************************************************************)
\* slot s is registered by a live worker that waits for the server, it is
\* not in the active-client table, and discoverAndServiceNewClient(s)
\* returns without binding it: its channel cannot be opened, or a record of
\* another slot has its channel name
Unbound(s) ==
    /\ g_registry.entries[s].active
    /\ \E w \in Workers : /\ wk[w].alive /\ wk[w].pc = "wait_ready"
                          /\ wk[w].registrySlot_ = s
                          /\ g_registry.entries[s].shm_name = ChannelName(w)
    /\ \A w \in Workers : ~(wk[w].pc \in {"reg_fields", "reg_version"} /\ wk[w].i = s)
    /\ \A c \in g_activeClients : c.registrySlot # s
    /\ \/ ShmOpen(g_registry.entries[s].shm_name) = 0
       \/ \E c \in g_activeClients : c.shmName = g_registry.entries[s].shm_name

\* the scan thread starts a pass and goes straight to the cleanup
ScanSkipped == scanner.pc = "top" /\ scanner'.pc = "cleanup"

\* C24: an active slot whose adoption returned without binding it is tried
\* again on the next pass: no pass skips its scan while such a slot exists,
\* whether or not the registry's version has changed.
C24_UnboundSlotIsScannedAgain ==
    [][ScanSkipped => \A s \in Slots : ~Unbound(s)]_vars

\* the records of the active-client table that serve slot s
RecordsOf(s) == {c \in g_activeClients : c.registrySlot = s}

\* the scan thread calls discoverAndServiceNewClient on active slot s
Adopts(s) ==
    /\ scanner.pc = "scan" /\ scanner.i = s /\ scanner' # scanner
    /\ g_registry.entries[s].active

\* C25: adoption is idempotent: a call on a slot that has a record changes
\* nothing, and after every step each slot has at most one record, hence at
\* most one service thread.
C25_OneRecordPerSlot ==
    [][\A s \in Slots :
          /\ Cardinality({c \in g_activeClients' : c.registrySlot = s}) <= 1
          /\ (Adopts(s) /\ RecordsOf(s) # {}) => g_activeClients' = g_activeClients]_vars

\* the scan has passed slot 0, which is active for a new holder while the
\* record of the holder before is still in the table
C25_Witness ==
    /\ scanner.pc = "scan" /\ scanner.i = 1
    /\ g_registry.entries[0].active
    /\ \E c \in RecordsOf(0) : c.ticket # holder[0]
    /\ Cardinality(RecordsOf(0)) = 1

\* C26: no two records of the active-client table have the same channel
\* name.
C26_OneRecordPerName ==
    \A c \in g_activeClients : \A d \in g_activeClients :
        c.shmName = d.shmName => c = d

\* the scan has passed slot 1, which is active under a channel name that the
\* record of slot 0 has, and slot 1 got no record
C26_Witness ==
    /\ scanner.pc = "cleanup" /\ scanner.lastVersion = g_registry.version
    /\ g_registry.entries[1].active /\ wk["A"].registrySlot_ = 1
    /\ \E c \in RecordsOf(0) : c.shmName = g_registry.entries[1].shm_name
    /\ RecordsOf(1) = {}

(***************************************************************************)
(* Claims about the reaper, checked under SpecDeath.                       *)
(***************************************************************************)
\* one of the three things the reaper looks at fails for record c
Fails(c) ==
    \/ ~g_registry.entries[c.registrySlot].active
    \/ ~seg[c.channel].client_connected
    \/ \E w \in Workers : Pid(w) = c.clientPid /\ ~wk[w].alive

\* slot s is in the list the first loop has made
Listed(s, toRemove) == \E k \in 1..Len(toRemove) : toRemove[k] = s

\* the scan thread takes the step it is at
ReaperAt(pc) == scanner.pc = pc /\ scanner' # scanner

\* every record but the one being removed stays as it is, with its slot's
\* flag and its channel's name
OthersUntouched ==
    \A c \in g_activeClients \ {Reaped} :
        /\ c \in g_activeClients'
        /\ g_registry'.entries[c.registrySlot].active
              = g_registry.entries[c.registrySlot].active
        /\ shm'[c.shmName] = shm[c.shmName]

RegisterCallStep(w) == wk'[w].connects = wk[w].connects + 1

\* the lowest index whose active flag is false, -1 when there is none
LowestFree(reg) ==
    IF \A i \in Slots : reg.entries[i].active THEN -1
    ELSE CHOOSE i \in Slots :
            /\ ~reg.entries[i].active
            /\ \A j \in 0..(i - 1) : reg.entries[j].active

\* C11: a register call that runs alone returns the lowest index whose
\* active flag was false, sets that entry to the caller's descriptor with
\* active = true, and leaves every other entry as it was.
C11_RegisterTakesLowestFreeSlot ==
    [][\A w \in Workers :
          RegisterCallStep(w) =>
             LET s == wk'[w].registrySlot_ IN
             /\ s = LowestFree(g_registry)
             /\ \A j \in Slots \ {s} :
                   g_registry'.entries[j] = g_registry.entries[j]
             /\ s # -1 => g_registry'.entries[s] = Descriptor(w)]_vars

\* C11 witness: B's call returned slot 0, freed by an unregister, while
\* slot 1 above it was still active with A's descriptor
C11_Witness ==
    /\ wk["B"].connects = 1 /\ wk["B"].registrySlot_ = 0
    /\ g_registry.entries[0] = Descriptor("B")
    /\ g_registry.entries[1] = Descriptor("A")

(***************************************************************************)
(* Claims about a full registry, checked under SpecFull.                   *)
(***************************************************************************)
\* C12: with every slot active, register finds no entry to claim: no active
\* flag, descriptor field or version changes, the connect of the extra
\* client fails (it never holds a slot, never counts as connected, and is
\* back idle with its channel name destroyed), and every resident client
\* keeps its slot, its client record with running = true, its service thread
\* and its channel segment; nothing is ever put on the reaper's list.
C12_FullRegistryRejectsRegister ==
    /\ g_registry = FullRegistry
    /\ \A w \in Workers :
          /\ wk[w].pc \in {"idle", "create", "register", "reg_full", "dead"}
          /\ wk[w].registrySlot_ = -1
          /\ ~wk[w].connected_
          /\ wk[w].pc \in {"idle", "dead"} /\ wk[w].alive
                => shm[ChannelName(w)] = 0
    /\ \A s \in Slots :
          /\ \E c \in g_activeClients :
                /\ c.registrySlot = s /\ c.shmName = ResidentName(s)
                /\ c.running /\ c.pc # "exited"
          /\ shm[ResidentName(s)] = s + 1
          /\ seg[s + 1].client_connected
    /\ Cardinality(g_activeClients) = MAX_REGISTERED_CLIENTS
    /\ scanner.toRemove = <<>>
    /\ scanner.pc \in {"top", "scan", "cleanup"}

\* C12 witness: register has just returned -1 to A after trying every slot,
\* B's connect has already failed, and the residents' threads are serving
C12_Witness ==
    /\ wk["A"].pc = "reg_full"
    /\ wk["B"].pc = "idle" /\ wk["B"].connects = 1
    /\ \A c \in g_activeClients : c.pc = "pop"
    /\ \A s \in Slots : seg[s + 1].scheduler_ready

(***************************************************************************)
(* Claims about readers of a reused slot, checked under SpecReuse.         *)
(***************************************************************************)
\* the descriptor a client record was made from: what the scan read from the
\* entry after it had loaded version and seen active = true
ReadBy(c) ==
    [shm_name |-> c.shmName, client_type |-> c.clientType,
     unique_id |-> c.uniqueId, client_pid |-> c.clientPid]

\* the descriptor passed to worker w's register call
PassedBy(w) ==
    [shm_name |-> ChannelName(w), client_type |-> "pytorch",
     unique_id |-> w, client_pid |-> Pid(w)]

\* C13: a register call has returned slot 0 before (A's, version 1 after
\* it), so every scan here observes a version at or above that value; what
\* a scan reads from an entry it sees active is the descriptor passed to one
\* register call, whole, never the name of one call with the pid of another.
C13_ReaderSeesOneDescriptor ==
    \A c \in g_activeClients : \E w \in Workers : ReadBy(c) = PassedBy(w)

(***************************************************************************)
(* Claims about the reaper and a dead worker, checked under FairSpecDeath. *)
(***************************************************************************)
\* worker w's process died after connect() had returned true and before
\* disconnect() was called
DiedConnected(w) == wk[w].pc = "dead" /\ wk[w].connected_

\* no slot is held by w's registration and w's channel name is unlinked
Released(w) ==
    /\ \A s \in Slots : holder[s] # Ticket(w)
    /\ shm[ChannelName(w)] = 0

EraseStep == scanner.pc = "reap_erase" /\ scanner'.pc # "reap_erase"

\* C15: when the reaper erases a client record from the active-client
\* table, the channel segment that record was serving, opened under the
\* record's name, is linked under no name of the shared-memory namespace.
C15_ReapedChannelIsUnlinked ==
    [][EraseStep =>
          /\ Reaped \notin g_activeClients'
          /\ \A n \in ChannelNames : shm'[n] # Reaped.channel]_vars

\* A died with client_connected still true and only the reaper could have
\* unlinked /ks_A; its record is erased and the scan loop is back at the top
C15_Witness ==
    /\ wk["A"].pc = "dead" /\ wk["A"].connects = 1
    /\ seg[1].client_connected
    /\ ~seg[1].scheduler_ready
    /\ shm[ChannelName("A")] = 0
    /\ g_activeClients = {}
    /\ scanner.pc = "top"


\* worker w has created its channel, registered and set client_connected,
\* and polls its channel's scheduler_ready (step 6 of connect())
Waiting(w) == wk[w].pc = "wait_ready"

\* C16: a worker that has followed the connect protocol and keeps waiting,
\* alive, eventually has a service thread: its channel's scheduler_ready
\* becomes true, whatever the other worker and the scan loop do meanwhile.
C16_WaitingWorkerIsServed ==
    \A w \in Workers :
        Waiting(w) ~> (~Waiting(w) \/ seg[wk[w].channel_].scheduler_ready)

\* the last step of worker w's disconnect()
DisconnectEnds(w) == wk[w].pc = "disc_destroy" /\ wk'[w].pc = "idle"

\* C20: a worker that has connected never unlinks the channel segment it
\* created: the end of its disconnect() detaches and leaves the namespace
\* as it is, so a connected client's channel is destroyed by the server
\* only.
C20_WorkerNeverUnlinks ==
    [][\A w \in Workers : DisconnectEnds(w) => shm' = shm]_vars

(***************************************************************************)
(* Claims about a channel's scheduler_ready flag, checked under SpecLife.  *)
(***************************************************************************)
\* a service thread of the server is running on segment k: its record is in
\* the table, the thread has stored scheduler_ready and has not returned
ServiceTaskOn(k) ==
    \E c \in g_activeClients : c.channel = k /\ c.pc \notin {"start", "exited"}

\* C17: a worker polling its channel in step 6 of connect() that finds
\* scheduler_ready true has a service task on that channel: the flag is true
\* only while the server has the channel adopted with its service thread
\* running.
C17_ReadyMeansServiceTask ==
    \A w \in Workers :
        (Waiting(w) /\ seg[wk[w].channel_].scheduler_ready)
            => ServiceTaskOn(wk[w].channel_)


(***************************************************************************)
(* Claims about shutdown, checked under SpecShutdown / FairSpecShutdown.   *)
(***************************************************************************)
\* segment k is linked under no channel name
Unlinked(k) == \A n \in ChannelNames : shm[n] # k

\* the scan thread has exited, every service thread was joined and its
\* record destroyed, and the registry's name is gone
ServerDown ==
    /\ scanner.pc = "exited"
    /\ g_activeClients = {}
    /\ shm[RegistryName] = 0

\* a client record on segment k is in the table after the flag was set
AttachedAtShutdown(k) ==
    /\ ~g_running
    /\ k <= Len(seg)
    /\ \E c \in g_activeClients : c.channel = k

\* C18: once g_running is cleared, the scan thread and every service thread
\* exit and the registry segment is unlinked, and the channel segment of
\* every client that was still attached is unlinked too.
C18_ShutdownDestroysEverything ==
    /\ ~g_running ~> ServerDown
    /\ \A k \in 1..MaxConnects : AttachedAtShutdown(k) ~> Unlinked(k)

\* what a client's poll of the registry finds: it opens the segment by name
\* and loads scheduler_ready
Poll ==
    IF shm[RegistryName] = 0 THEN "gone"
    ELSE IF g_registry.scheduler_ready THEN "true" ELSE "false"

\* C19: the registry's name is unlinked only when scheduler_ready is already
\* false, and what a poll finds only moves forward through true, false,
\* gone: never true again once the flag was cleared or the segment removed.
C19_ReadyClearedBeforeUnlink ==
    [][/\ (shm[RegistryName] # 0 /\ shm'[RegistryName] = 0)
              => ~g_registry.scheduler_ready
       /\ Poll # "true" => Poll' # "true"
       /\ Poll = "gone" => Poll' = "gone"]_vars

\* cleanupSharedMemory has finished: the flag was cleared, then the name
\* removed, while worker A is still alive and attached to its channel
C19_Witness ==
    /\ main = "done"
    /\ Poll = "gone"
    /\ ~g_registry.scheduler_ready
    /\ wk["A"].pc = "connected"

(***************************************************************************)
(* Claims about failed connect() calls, checked under SpecFail.            *)
(***************************************************************************)
\* the last step of a connect() of worker w that returns false after the
\* channel was created: registry full, or timeout on the channel's flag
ConnectFails(w) == wk[w].pc \in {"fail_destroy", "reg_full"} /\ wk'[w].pc = "idle"

\* C21: when a connect() call returns false, the worker holds no registry
\* slot (no slot carries its registration, its registrySlot_ is -1) and the
\* channel segment it created is linked under no name.
C21_FailedConnectLeavesNoResidue ==
    [][\A w \in Workers : ConnectFails(w) =>
          /\ wk'[w].registrySlot_ = -1
          /\ \A s \in Slots : holder'[s] # Ticket(w)
          /\ shm'[ChannelName(w)] = 0
          /\ \A n \in DOMAIN shm : shm'[n] # wk[w].channel_]_vars

\* worker B's connect() has failed on the full registry: it created a
\* segment, found no slot, and is back at rest with its name unlinked
C21_Witness ==
    /\ g_registry = FullRegistry
    /\ wk["A"].pc = "idle" /\ wk["A"].connects = 1
    /\ wk["B"].pc = "idle" /\ wk["B"].connects = 1
    /\ Len(seg) > MAX_REGISTERED_CLIENTS
    /\ \A w \in Workers : shm[ChannelName(w)] = 0

(***************************************************************************)
(* Claims about opening segments, checked under SpecOpen.                  *)
(***************************************************************************)
\* C22: the in-place initializer runs when a segment is first created and
\* never on a segment that already exists: an existing channel segment
\* changes only by a store of one of its users, and the registry changes
\* only by a register call, whatever opens happen with or without the
\* create flag.
C22_OpenLeavesExistingSegment ==
    [][/\ \A k \in 1..Len(seg) :
             \/ seg'[k] = seg[k]
             \/ seg'[k] = [seg[k] EXCEPT !.client_connected = TRUE]
       /\ shm[RegistryName] # 0 =>
             \/ g_registry' = g_registry
             \/ wk' # wk]_vars

(***************************************************************************)
(* Claims about the version counter, checked under FairSpecBump.           *)
(***************************************************************************)
\* slot s keeps the value b of its active flag from now on, or version
\* leaves the value v, or the process making the change has died
KeptOrBumped(s, b, v) ==
    \/ [](g_registry.entries[s].active = b)
    \/ <>(g_registry.version # v)
    \/ <>(\E w \in Workers : ~wk[w].alive)

\* C23: every change of a slot's active flag is followed by an increment of
\* version: whenever a slot's flag is seen with some value at some version,
\* the flag keeps that value for good or the version moves on.
C23_ActiveChangeBumpsVersion ==
    \A s \in Slots : \A v \in 0..(2 * MaxConnects) : \A b \in BOOLEAN :
        []((g_registry.version = v /\ g_registry.entries[s].active = b)
              => KeptOrBumped(s, b, v))

(***************************************************************************)
(* Claims about stopping a service thread, checked under FairSpecStop.     *)
(***************************************************************************)
\* the service thread of slot s has been told to stop
Stopped(s) == \E c \in RecordsOf(s) : ~g_running \/ ~c.running

\* slot s has no service thread inside serviceClientChannel
Exited(s) == \A c \in RecordsOf(s) : c.pc = "exited"

\* the thread of record c loads the flags in this step and finds one false:
\* at the loop test, or in the spin after a pop that found the ring empty
Observes(c) ==
    /\ ~g_running \/ ~c.running
    /\ \/ c.pc = "loop"
       \/ c.pc = "pop" /\ SPSCQueue_empty(seg[c.channel].request_queue)
    /\ \E d \in g_activeClients' : d.registrySlot = c.registrySlot /\ d.pc # c.pc

\* C28: a service thread whose running flag, or the global one, is false
\* leaves serviceClientChannel after finitely many steps, from the spin on
\* an empty request ring and from a push to a full response ring alike; the
\* step in which it finds the flag false takes it out, and once out it pops
\* nothing.
C28_StoppedThreadExits ==
    /\ \A s \in Slots : Stopped(s) ~> Exited(s)
    /\ [][\A c \in g_activeClients :
            /\ Observes(c) =>
                  \A d \in g_activeClients' :
                      d.registrySlot = c.registrySlot => d.pc = "exited"
            /\ c.pc = "exited" =>
                  /\ \A d \in g_activeClients' :
                        d.registrySlot = c.registrySlot => d.pc = "exited"
                  /\ (wk' = wk /\ sent' = sent) =>
                        seg'[c.channel].request_queue
                           = seg[c.channel].request_queue]_vars

\* the thread was stopped while its response ring was full: its last push
\* timed out and it has left
C28_Witness ==
    \E c \in RecordsOf(0) :
        /\ c.pc = "exited" /\ ~c.running
        /\ SPSCQueue_full(seg[c.channel].response_queue)
        /\ Len(log[0]) > 0 /\ log[0][Len(log[0])].outcome = "timeout"

\* the push of the response to the last request of slot s times out
TimesOut(s) ==
    /\ Len(log[s]) > 0 /\ Len(log'[s]) = Len(log[s])
    /\ log[s][Len(log[s])].outcome = "pending"
    /\ log'[s][Len(log[s])].outcome = "timeout"

\* the thread of record c is at its loop test and takes it
LoopTest(c) ==
    /\ c.pc = "loop"
    /\ \E d \in g_activeClients' : d.registrySlot = c.registrySlot /\ d.pc # "loop"

\* the thread of slot s is running, not stopped, and a request waits
RequestWaits(s) ==
    /\ g_running
    /\ \E c \in RecordsOf(s) :
          /\ c.running /\ c.pc # "exited"
          /\ ~SPSCQueue_empty(seg[c.channel].request_queue)

\* C29: a push that times out on a full response ring leaves the thread in
\* serviceClientChannel at its loop test with the response given up and the
\* ring as it was; the loop test loads both flags; and a request that waits
\* after a timeout is popped unless the thread is stopped.
C29_TimeoutDropsResponseOnly ==
    /\ [][\A c \in g_activeClients :
            /\ TimesOut(c.registrySlot) =>
                  /\ SPSCQueue_full(seg[c.channel].response_queue)
                  /\ seg' = seg
                  /\ \E d \in g_activeClients' :
                        /\ d.registrySlot = c.registrySlot
                        /\ d.pc = "loop" /\ d.response = <<>>
            /\ LoopTest(c) =>
                  \E d \in g_activeClients' :
                      /\ d.registrySlot = c.registrySlot
                      /\ d.pc = IF g_running /\ c.running THEN "pop" ELSE "exited"]_vars
    /\ \A s \in Slots :
          (/\ Len(log[s]) > 0 /\ log[s][Len(log[s])].outcome = "timeout"
           /\ RequestWaits(s))
             ~> \/ Len(log[s]) > 0 /\ log[s][Len(log[s])].outcome # "timeout"
                \/ Stopped(s)
                \/ RecordsOf(s) = {}

\* after a push that timed out the worker took a response and the thread
\* answered a later request
C29_Witness ==
    \E i \in 1..Len(log[0]) : \E j \in 1..Len(log[0]) :
        /\ i < j
        /\ log[0][i].outcome = "timeout"
        /\ log[0][j].outcome = "pushed"

(***************************************************************************)
(* Claims about the life of a channel, checked under SpecCycle.            *)
(***************************************************************************)
\* where the server is with segment k, from the records of table clients:
\* no record (not adopted yet, or reaped), recorded with its thread not yet
\* at the ready store, thread in its loop, thread out and waiting for the
\* join
Stage(clients, k) ==
    LET recs == {c \in clients : c.channel = k} IN
    IF recs = {} THEN "NONE"
    ELSE IF \E c \in recs : c.pc = "start" THEN "MAPPED"
    ELSE IF \E c \in recs : c.pc = "exited" THEN "OUT"
    ELSE "SERVING"

\* the steps of the state machine
StageSteps ==
    {<<"NONE", "MAPPED">>, <<"MAPPED", "SERVING">>, <<"SERVING", "OUT">>,
     <<"OUT", "NONE">>}

\* segment k is reaped: it has no record in table clients and cannot get
\* one, because no name of the name table leads to it or because the scan
\* thread, at sc, has ended
Gone(clients, names, sc, k) ==
    /\ Stage(clients, k) = "NONE"
    /\ \/ sc.pc = "exited"
       \/ \A n \in DOMAIN names : names[n] # k

\* C30: a channel goes from adopted (mapped and recorded) to serving to
\* reaped and by no other way; its scheduler_ready flag is set only by the
\* thread of its record and is set while it serves; a request is popped
\* from it only by a thread in its loop; and a channel whose record has been
\* removed is reaped, and stays so for good.
C30_ChannelLifecycle ==
    [][\A k \in 1..Len(seg) :
          /\ \/ Stage(g_activeClients', k) = Stage(g_activeClients, k)
             \/ <<Stage(g_activeClients, k), Stage(g_activeClients', k)>>
                   \in StageSteps
          /\ (~seg[k].scheduler_ready /\ seg'[k].scheduler_ready)
                => Stage(g_activeClients, k) = "MAPPED"
          /\ Stage(g_activeClients', k) = "SERVING" => seg'[k].scheduler_ready
          /\ seg'[k].request_queue.head # seg[k].request_queue.head
                => /\ Stage(g_activeClients, k) = "SERVING"
                   /\ seg[k].scheduler_ready
          /\ (Stage(g_activeClients, k) = "OUT"
                /\ Stage(g_activeClients', k) = "NONE")
                => Gone(g_activeClients', shm', scanner', k)
          /\ Gone(g_activeClients, shm, scanner, k)
                => Gone(g_activeClients', shm', scanner', k)]_vars

\* worker A's first channel has been served and reaped, its second channel
\* is being served
C30_Witness ==
    /\ Len(seg) = 2
    /\ Stage(g_activeClients, 1) = "NONE" /\ Len(log[0]) > 0
    /\ Stage(g_activeClients, 2) = "SERVING"
    /\ \A n \in DOMAIN shm : shm[n] # 1

(***************************************************************************)
(* Claims about unregister_client as a call, checked under SpecRegistry.   *)
(***************************************************************************)
\* what unregister_client(slot) makes of the registry as it is now
AfterUnregister(slot) == unregister_client(g_registry, slot)

\* C31: from every registry the calls reach, unregister(slot) with a slot in
\* range sets that entry's active flag to false and adds one to version,
\* leaving the entry's channel name, type, unique id and pid and every
\* other entry as they were; with a slot out of range it changes nothing.
C31_UnregisterClearsOnlyActive ==
    \A slot \in -1..MAX_REGISTERED_CLIENTS :
        IF slot \in Slots
        THEN /\ ~AfterUnregister(slot).entries[slot].active
             /\ AfterUnregister(slot).version = g_registry.version + 1
             /\ AfterUnregister(slot).entries[slot] =
                   [g_registry.entries[slot] EXCEPT !.active = FALSE]
             /\ \A j \in Slots \ {slot} :
                   AfterUnregister(slot).entries[j] = g_registry.entries[j]
             /\ AfterUnregister(slot).scheduler_ready = g_registry.scheduler_ready
        ELSE AfterUnregister(slot) = g_registry

\* slot 0 was registered by A and unregistered while B holds slot 1: A's
\* descriptor is still in slot 0
C31_Witness ==
    /\ g_registry.entries[0] = [Descriptor("A") EXCEPT !.active = FALSE]
    /\ g_registry.entries[1] = Descriptor("B")
    /\ g_registry.version = 3

(***************************************************************************)
(* Claims about push_blocking and pop_blocking, checked under              *)
(* FairSpecBlocking.                                                       *)
(***************************************************************************)
\* the call of caller c (its record before and after the step) returns ret
Returns(c, d, ret) == c.pc = "spin" /\ d.pc = "idle" /\ d.ret = ret

\* C32: a blocking call returns Ok only in a turn whose try_push or try_pop
\* succeeded; it returns TimedOut only with a timeout that is not negative,
\* after a failed attempt, leaving the ring as it was; a call without a
\* timeout returns once the ring has room (data) for it.
C32_BlockingCallsReturn ==
    /\ [][/\ Returns(prod, prod', "Ok") =>
                /\ try_push(ring, prod.data).ret
                /\ ring' = try_push(ring, prod.data).q
          /\ Returns(cons, cons', "Ok") =>
                /\ try_pop(ring, SPSC_MSG_SIZE).ret
                /\ ring' = try_pop(ring, SPSC_MSG_SIZE).q
                /\ cons'.out_data = try_pop(ring, SPSC_MSG_SIZE).out_data
          /\ Returns(prod, prod', "TimedOut") =>
                /\ prod.timeout_ms >= 0
                /\ ~try_push(ring, prod.data).ret
                /\ ring' = ring
          /\ Returns(cons, cons', "TimedOut") =>
                /\ cons.timeout_ms >= 0
                /\ ~try_pop(ring, SPSC_MSG_SIZE).ret
                /\ ring' = ring
          /\ (prod.pc = "spin" /\ prod'.pc = "idle") => prod'.ret \in {"Ok", "TimedOut"}
          /\ (cons.pc = "spin" /\ cons'.pc = "idle") => cons'.ret \in {"Ok", "TimedOut"}]_vars
    /\ (prod.pc = "spin" /\ prod.timeout_ms < 0 /\ ~SPSCQueue_full(ring))
          ~> (prod.pc = "idle" /\ prod.ret = "Ok")
    /\ (cons.pc = "spin" /\ cons.timeout_ms < 0 /\ ~SPSCQueue_empty(ring))
          ~> (cons.pc = "idle" /\ cons.ret = "Ok")

\* a push without a timeout returned Ok on a ring that holds two records
\* only after the consumer's pop, with timeout zero, had made room
C32_Witness ==
    /\ prod.pc = "idle" /\ prod.ret = "Ok" /\ prod.timeout_ms < 0
    /\ Len(pushed) = SPSC_QUEUE_SIZE /\ Len(popped) = 1
    /\ cons.pc = "idle" /\ cons.ret = "Ok" /\ cons.timeout_ms = 0

(***************************************************************************)
(* Who writes what in a ring, checked under SpecMulti: two channels, each  *)
(* with a worker at one end and a service thread at the other.             *)
(***************************************************************************)
\* the rings of the mapped channels
Rings == UNION {{seg[k].request_queue, seg[k].response_queue} : k \in DOMAIN seg}

\* a step of the service thread of the record on channel k
ServerStepOn(k) ==
    \E c \in g_activeClients : c.channel = k /\ ServiceThread(c.registrySlot)

\* a step of the worker that holds channel k
WorkerStepOn(k) ==
    \E w \in Workers :
        /\ wk[w].channel_ = k
        /\ \/ \E request \in MultiRequests(w) : WorkerSend(w, request)
           \/ WorkerRecv(w)

\* C33: try_push leaves head alone, try_pop leaves tail and every slot
\* alone; on a channel a step of the service thread changes at most the head
\* of the request ring and the tail and slots of the response ring of its own
\* channel, a step of the worker at most the tail and slots of its request
\* ring and the head of its response ring.
C33_OneWriterPerField ==
    /\ [](\A q \in Rings :
            /\ \A w \in Workers : \A data \in MultiRequests(w) :
                  try_push(q, data).q.head = q.head
            /\ try_pop(q, SPSC_MSG_SIZE).q.tail = q.tail
            /\ try_pop(q, SPSC_MSG_SIZE).q.buffer = q.buffer)
    /\ [][\A k \in DOMAIN seg :
            /\ ServerStepOn(k) =>
                  /\ seg'[k].request_queue.tail = seg[k].request_queue.tail
                  /\ seg'[k].request_queue.buffer = seg[k].request_queue.buffer
                  /\ seg'[k].response_queue.head = seg[k].response_queue.head
                  /\ \A j \in DOMAIN seg \ {k} : seg'[j] = seg[j]
            /\ WorkerStepOn(k) =>
                  /\ seg'[k].request_queue.head = seg[k].request_queue.head
                  /\ seg'[k].response_queue.tail = seg[k].response_queue.tail
                  /\ seg'[k].response_queue.buffer = seg[k].response_queue.buffer
                  /\ \A j \in DOMAIN seg \ {k} : seg'[j] = seg[j]
            /\ seg'[k].request_queue.head # seg[k].request_queue.head
                  => ServerStepOn(k)
            /\ seg'[k].response_queue.tail # seg[k].response_queue.tail
                  => ServerStepOn(k)
            /\ seg'[k].response_queue.buffer # seg[k].response_queue.buffer
                  => ServerStepOn(k)
            /\ seg'[k].request_queue.tail # seg[k].request_queue.tail
                  => WorkerStepOn(k)
            /\ seg'[k].request_queue.buffer # seg[k].request_queue.buffer
                  => WorkerStepOn(k)
            /\ seg'[k].response_queue.head # seg[k].response_queue.head
                  => WorkerStepOn(k)]_vars

\* both ends of channel 1 have pushed and popped, the request ring has wrapped
C33_Witness ==
    /\ Len(sent["A"]) = SPSC_QUEUE_SIZE
    /\ seg[1].request_queue.tail = 0
    /\ seg[1].request_queue.head # 0
    /\ seg[1].response_queue.tail # 0
    /\ seg[1].response_queue.head # 0

(***************************************************************************)
(* The reaper and a worker that is inside connect(), checked under         *)
(* SpecLife.                                                               *)
(***************************************************************************)
\* worker w is alive, register_client has returned its slot and it is about
\* to execute setClientConnected(true)
Connecting(w) == wk[w].alive /\ wk[w].pc = "set_connected"

\* C34: a live worker that has registered and has not yet set
\* client_connected keeps its registry slot active and its channel name
\* linked to its segment.
C34_ConnectingWorkerKeepsSlot ==
    \A w \in Workers :
        Connecting(w) =>
            /\ g_registry.entries[wk[w].registrySlot_].active
            /\ ShmOpen(ChannelName(w)) = wk[w].channel_

(***************************************************************************)
(* Whose registration the reaper clears, checked under SpecLife.           *)
(***************************************************************************)
\* the reaper's store turns the flag of the reaped record's slot off
ReapClears ==
    /\ ReapStep
    /\ g_registry.entries[Reaped.registrySlot].active
    /\ ~g_registry'.entries[Reaped.registrySlot].active

\* C35: a registration the reaper deactivates is the one the reaped record was
\* adopted for, never that of a worker that claimed the slot afterwards.
C35_ReaperClearsItsOwnRecord ==
    [][ReapClears => holder[Reaped.registrySlot] = Reaped.ticket]_vars

(***************************************************************************)
(* Whose descriptor an adopted record carries, checked under SpecReuse.    *)
(***************************************************************************)
\* C36: the name, type, unique id and pid of a client record are those passed
\* to the register call of the worker that owned the slot when the scan
\* adopted it.
C36_RecordCarriesOwnersFields ==
    \A c \in g_activeClients :
        /\ c.ticket # <<>>
        /\ ReadBy(c) = PassedBy(c.ticket[1])

(***************************************************************************)
(* The end of a client record (~ActiveClient), checked under SpecCycle.    *)
(* A record holds the server's mapping of its channel: the mapping is      *)
(* there exactly as long as the record is.                                 *)
(***************************************************************************)
\* the record c of this state is destroyed in the step
Destroyed(c) ==
    ~\E d \in g_activeClients' :
        d.registrySlot = c.registrySlot /\ d.channel = c.channel

\* the server touches channel k in the step: a ring index or slot of the
\* server's side changes, or scheduler_ready is stored
ServerTouches(k) ==
    ServerStepOn(k) /\ seg'[k] # seg[k]

\* C37: a record is destroyed only when running is false and its service
\* thread has left serviceClientChannel, and the step clears scheduler_ready;
\* a service thread changes a channel only while the record that maps it
\* exists, before and after the step.
C37_NoAccessAfterUnmap ==
    [][/\ \A c \in g_activeClients :
             Destroyed(c) =>
                /\ ~c.running
                /\ c.pc = "exited"
                /\ ~seg'[c.channel].scheduler_ready
       /\ \A k \in DOMAIN seg :
             ServerTouches(k) =>
                \E c \in g_activeClients :
                   /\ c.channel = k
                   /\ c.pc \notin {"exited"}
                   /\ ~Destroyed(c)]_vars

\* the thread has answered a request, its record was destroyed by the reaper
\* while the server keeps running, and the channel is left with the flag off
C37_Witness ==
    /\ g_activeClients = {}
    /\ g_running
    /\ Len(received["A"]) >= 1
    /\ ~seg[1].scheduler_ready

(***************************************************************************)
(* Claims about the mutexes, checked under SpecLocks.                      *)
(***************************************************************************)
\* the mutexes thread t holds
Holds(t) == {m \in Mutexes : locks.owner[m] = t}

\* the mutex thread t is about to lock, "none" when it is not at a lock
Wanted(t) ==
    IF locks.at[t] = "lock_log" THEN "log"
    ELSE IF locks.at[t] = "lock_stats" THEN "stats"
    ELSE IF locks.at[t] \in {"status_lock", "cleanup_lock", "discover_lock",
                             "reap_lock"} THEN "clients"
    ELSE "none"

\* the thread t is joining, "none" when it is not in a join
Joining(t) ==
    IF t = "main" /\ locks.at[t] = "join_scan" THEN "scan"
    ELSE IF t = "main" /\ locks.at[t] = "cleanup_clear" /\ Recorded # {}
         THEN FirstOf(Recorded)
    ELSE IF t = "scan" /\ locks.at[t] = "reap_join" /\ locks.toRemove # {}
         THEN FirstOf(locks.toRemove)
    ELSE "none"

\* the threads t cannot go on without
WaitsFor(t) ==
    {u \in Threads :
        \/ Wanted(t) # "none" /\ locks.owner[Wanted(t)] = u
        \/ Joining(t) = u /\ locks.at[u] # "done"}

\* some threads wait for one another in a circle
Deadlocked ==
    \E D \in SUBSET Threads :
        D # {} /\ \A t \in D : WaitsFor(t) \cap D # {}

\* thread t gets mutex m in the step
Acquires(t, m) == locks.owner[m] # t /\ locks'.owner[m] = t

\* C38: no set of server threads waits in a circle of mutexes and joins; a
\* service thread never locks the active-client mutex, nobody locks the log
\* mutex while holding the statistics mutex, and a service thread is joined
\* only by a thread that holds the active-client mutex.
C38_NoMutexDeadlock ==
    /\ []~Deadlocked
    /\ [][/\ \A t \in Threads :
                /\ Acquires(t, "clients") => t \notin SvcThreads
                /\ Acquires(t, "log") => "stats" \notin Holds(t)
                /\ Acquires(t, "stats") => Holds(t) \subseteq {"log"}
          /\ \A t \in SvcThreads :
                (locks.at[t] = "done" /\ locks'.at[t] = "none") =>
                    \E u \in {"main", "scan"} : "clients" \in Holds(u)]_vars

\* the reaper joins svc0 under the active-client mutex, svc0 waits for the
\* log mutex, main holds it and waits for the statistics mutex, which svc1
\* holds: a chain of waits that ends in a thread that can run
C38_Witness ==
    /\ locks.at["scan"] = "reap_join" /\ locks.toRemove = {"svc0"}
    /\ "clients" \in Holds("scan")
    /\ locks.at["svc0"] = "lock_log"
    /\ "log" \in Holds("main")
    /\ locks.at["main"] = "lock_stats"
    /\ "stats" \in Holds("svc1")

(***************************************************************************)
(* The scan thread and shutdown, checked under SpecShutdown.               *)
(***************************************************************************)
\* main() is past scannerThread.join()
PastJoin == main \in {"stop", "clear", "ready", "unlink", "done"}

\* cleanupSharedMemory has cleared g_activeClients
TableCleared == main \in {"ready", "unlink", "done"}

\* the step adds a client record (an adoption: the record and its thread)
RecordAdded ==
    \E d \in g_activeClients' :
        ~\E c \in g_activeClients :
            c.registrySlot = d.registrySlot /\ c.channel = d.channel

\* C39: from the join of the scan thread on, that is before the table is
\* cleared and before the registry is unmapped, the scan thread has left its
\* loop and takes no step, so it reads no registry entry and adopts nothing;
\* once the table is cleared it stays empty.
C39_NoAdoptionAfterClear ==
    /\ [](PastJoin => scanner.pc = "exited")
    /\ [](TableCleared => g_activeClients = {})
    /\ [][PastJoin => (scanner' = scanner /\ ~RecordAdded)]_vars

\* shutdown is complete while worker B, which registered a slot during the
\* shutdown, still waits for a server: its slot is active and was not adopted
C39_Witness ==
    /\ main = "done"
    /\ g_activeClients = {}
    /\ wk["B"].pc = "wait_ready" /\ wk["B"].alive
    /\ g_registry.entries[wk["B"].registrySlot_].active
====
